---- MODULE Spec2Model ----
(***************************************************************************)
(* A model of mini-dbg: the Target of src/src/target.rs (breakpoint        *)
(* engine over ptrace), the Debugger session of src/src/debugger.rs, and   *)
(* the traced child they drive.  The child is a small x86 machine whose    *)
(* text is a byte array; the kernel's ptrace requests (PEEK/POKE,          *)
(* SINGLESTEP, CONT, wait) act on it.                                      *)
(***************************************************************************)
EXTENDS Integers, Sequences, FiniteSets, TLC

VARIABLES
    \* ---- the traced child (kernel + CPU side) ----
    prog,            \* the text the child was loaded with (never changes)
    mem,             \* the child's memory, byte per address
    rip,             \* the child's program counter
    run,             \* "stopped" | "cont" | "step" | "exited"
    pending,         \* wait status not yet reaped ("none" when there is none)
    cause,           \* why the child last stopped: [kind, addr]
    \* ---- Target (target.rs) ----
    breakpoints,     \* Target.breakpoints: address -> Breakpoint
    next_bp_num,     \* Target.next_bp_num
    \* ---- observation of the run (history) ----
    op,              \* the last Target operation and what it did
    rt,              \* the last set_breakpoint(a); delete_breakpoint(a) pair
    ptrace_failed,   \* some ptrace call has failed so far
    n_created,       \* entries set_breakpoint has inserted so far
    \* ---- Debugger (debugger.rs) ----
    child_pid,                \* Debugger.child_pid: "None" | "Some"
    dbg_breakpoints,          \* Debugger.breakpoints: the addresses recorded
    breakpoint_restore_info,  \* Debugger.breakpoint_restore_info: address -> byte
    breakpoints_outstanding,  \* Debugger.breakpoints_outstanding
    repl,                     \* where run_repl is: "read" | "wait" | "done" | "panic"
    children,                 \* children forked so far and not reaped as exited
    cmd,                      \* the last command read: "Continue" or "other" (history)
    deleted,                  \* addresses DeleteBp restored, not set since (history)
    \* ---- a child with a call stack, for print_backtrace and get_cfa ----
    sprog,           \* the program run: who calls whom, the local's value and size
    smem,            \* the child's stack memory, byte per address
    regs,            \* the child's registers: [rip, rsp, rbp]
    calls,           \* the calls that are active: <<[fn, sp]>>, outermost first (history)
    bt,              \* what the last print_backtrace printed
    cfa,             \* what the last get_cfa returned
    \* ---- process_subprogram, process_variable over one DIE ----
    die,             \* the attributes of the DIE, in file order
    fn_out,          \* what the call returned: an address_range, or a Variable
    \* ---- GimliWrapper::collect_info over the units of a file ----
    dwarf,           \* the compilation units, each its DIEs in DFS order
    types,           \* GimliWrapper.types: offset -> Type
    functions,       \* GimliWrapper.functions
    collected,       \* collect_info has returned
    \* ---- the command parsers ----
    line,            \* the line read_line returned, as its characters
    command,         \* the ReplCommand returned, and by which parser
    \* ---- read_bytes and write_byte called on their own ----
    mcall,           \* the last call: its arguments and what it returned
    \* ---- the process fork() returns 0 in ----
    forked           \* the forked child: where it is, its personality, its environment

tvars == <<prog, mem, rip, run, pending, cause>>
gvars == <<breakpoints, next_bp_num>>
hvars == <<op, rt, ptrace_failed, n_created>>
dvars == <<child_pid, dbg_breakpoints, breakpoint_restore_info,
           breakpoints_outstanding, repl, children, cmd, deleted>>
svars == <<sprog, smem, regs, calls, bt, cfa>>
pvars == <<die, fn_out>>
ivars == <<dwarf, types, functions, collected>>
cvars == <<line, command>>
mvars == <<mcall>>
fvars == <<forked>>
zvars == <<ivars, cvars, mvars, fvars>>
xvars == <<svars, pvars, zvars>>
vars == <<tvars, gvars, hvars, dvars, xvars>>

(***************************************************************************)
(* Bounds of the model.                                                    *)
(***************************************************************************)
MemWords == 2        \* mapped memory of the child, in 8-byte words
MaxBpNum == 2        \* set_breakpoint calls that take an index
BpWindow == 3        \* text addresses a caller names in set/delete
MaxChildren == 2     \* children a session forks
DbgWindow == 2       \* text addresses a bp set / bp del command names
StackWords == 9      \* stack of the call-stack child, in 8-byte words
MaxFrames == 4       \* frames one print_backtrace walks
MaxFnLen == 3        \* largest DW_AT_high_pc given as an offset

(***************************************************************************)
(* Program constants.                                                      *)
(***************************************************************************)
WORD == 8            \* size_of::<usize>()
INT3 == 204          \* 0xcc

MemSize == MemWords * WORD
Addr == 0 .. (MemSize - 1)
NoAddr == 0 - 1
\* Any program counter outside 0..MemSize (a jump into unmapped memory).
Wild == MemSize + 2

(***************************************************************************)
(* The child's instruction set: the x86 opcodes the test programs use.     *)
(* Every other byte is an illegal instruction.                             *)
(***************************************************************************)
X86 == [nop |-> 144, jmp |-> 235, hlt |-> 244, syscall |-> 15]

TextBase == MemSize - 11

\* nop ; jmp +0 ; nop ; jmp -6 : an endless loop over 6 bytes of text.
TextLoop == <<144, 235, 0, 144, 235, 250>>
\* nop ; nop ; int3 (the program's own) ; nop ; syscall(exit)
TextExit == <<144, 144, 204, 144, 15, 5>>
\* nop ; jmp +1 ; (skipped byte) ; nop ; hlt (faults in user mode)
TextFault == <<144, 235, 1, 204, 144, 244>>

\* The linker pads text with int3.
Load(text) ==
    [a \in Addr |->
        IF a >= TextBase /\ a < TextBase + Len(text)
        THEN text[a - TextBase + 1] ELSE INT3]

Programs == {Load(TextLoop), Load(TextExit), Load(TextFault)}

\* Addresses a caller passes to set/delete: a window of the text that spans
\* a word boundary, and one unmapped address.
AddrInputs == ((TextBase + 1) .. (TextBase + BpWindow)) \cup {MemSize}

\* Addresses the bp set / bp del commands of a session name.
DbgAddrInputs == ((TextBase + 1) .. (TextBase + DbgWindow)) \cup {MemSize}

NormRip(t) == IF t \in 0 .. MemSize THEN t ELSE Wild

Rel8(b) == IF b >= 128 THEN b - 256 ELSE b

\* One instruction of the child at ip over memory m.
\* status "run": no signal raised.
ExecOne(m, ip) ==
    IF ip \notin Addr THEN [rip |-> ip, status |-> "SIGSEGV", kind |-> "fault"]
    ELSE LET b == m[ip] IN
      CASE b = INT3 -> [rip |-> NormRip(ip + 1), status |-> "SIGTRAP", kind |-> "int3"]
        [] b = X86.nop -> [rip |-> NormRip(ip + 1), status |-> "run", kind |-> "none"]
        [] b = X86.jmp ->
             IF ip + 1 \notin Addr
             THEN [rip |-> ip, status |-> "SIGSEGV", kind |-> "fault"]
             ELSE [rip |-> NormRip(ip + 2 + Rel8(m[ip + 1])), status |-> "run", kind |-> "none"]
        [] b = X86.syscall -> [rip |-> ip, status |-> "Exited", kind |-> "exit"]
        [] b = X86.hlt -> [rip |-> ip, status |-> "SIGSEGV", kind |-> "fault"]
        [] OTHER -> [rip |-> ip, status |-> "SIGILL", kind |-> "fault"]

\* PTRACE_SINGLESTEP: one instruction, then a SIGTRAP stop unless the
\* instruction itself raised a signal or ended the process.
StepOne(m, ip) ==
    LET r == ExecOne(m, ip) IN
    IF r.status = "run"
    THEN [rip |-> r.rip, status |-> "SIGTRAP", kind |-> "step"]
    ELSE r

(***************************************************************************)
(* Memory access of Target, word-granular over PEEKDATA / POKEDATA.        *)
(***************************************************************************)
align_addr_to_word(addr) == addr - (addr % WORD)

\* The word at an aligned address, as its little-endian bytes 0..7.
PeekWord(m, aligned) == [i \in 0 .. (WORD - 1) |-> m[aligned + i]]

PokeWord(m, aligned, word) ==
    [a \in Addr |->
        IF a >= aligned /\ a < aligned + WORD THEN word[a - aligned] ELSE m[a]]

\* Variant: the byte is or-ed into the word without masking the old byte out.
RECURSIVE ByteOr(_, _, _)
ByteOr(x, y, n) ==
    IF n = 0 THEN 0
    ELSE (IF x % 2 = 1 \/ y % 2 = 1 THEN 1 ELSE 0)
         + 2 * ByteOr(x \div 2, y \div 2, n - 1)

write_byte_nomask(m, addr, byte) ==
    LET aligned_addr == align_addr_to_word(addr)
        byte_offset == addr - aligned_addr
    IN IF aligned_addr \notin Addr
       THEN [ok |-> FALSE, mem |-> m, old |-> 0]
       ELSE LET word == PeekWord(m, aligned_addr)
                updated_word == [word EXCEPT ![byte_offset] = ByteOr(@, byte, 8)]
            IN [ok |-> TRUE, mem |-> PokeWord(m, aligned_addr, updated_word),
                old |-> word[byte_offset]]

\* Variant: the old byte is taken from the low byte of the word (the shift by
\* 8 * byte_offset is missing).
write_byte_lowbyte(m, addr, byte) ==
    LET aligned_addr == align_addr_to_word(addr)
        byte_offset == addr - aligned_addr
    IN IF aligned_addr \notin Addr
       THEN [ok |-> FALSE, mem |-> m, old |-> 0]
       ELSE LET word == PeekWord(m, aligned_addr)
                updated_word == [word EXCEPT ![byte_offset] = byte]
            IN [ok |-> TRUE, mem |-> PokeWord(m, aligned_addr, updated_word),
                old |-> word[0]]

\* Variant: the other seven bytes of the word are not masked back in.
write_byte_clobber(m, addr, byte) ==
    LET aligned_addr == align_addr_to_word(addr)
        byte_offset == addr - aligned_addr
    IN IF aligned_addr \notin Addr
       THEN [ok |-> FALSE, mem |-> m, old |-> 0]
       ELSE LET word == PeekWord(m, aligned_addr)
                updated_word == [i \in 0 .. (WORD - 1) |->
                                    IF i = byte_offset THEN byte ELSE 0]
            IN [ok |-> TRUE, mem |-> PokeWord(m, aligned_addr, updated_word),
                old |-> word[byte_offset]]

write_byte(m, addr, byte) ==
    LET aligned_addr == align_addr_to_word(addr)
        byte_offset == addr - aligned_addr
    IN IF aligned_addr \notin Addr
       THEN [ok |-> FALSE, mem |-> m, old |-> 0]
       ELSE LET word == PeekWord(m, aligned_addr)
                orig_byte == word[byte_offset]
                updated_word == [word EXCEPT ![byte_offset] = byte]
            IN [ok |-> TRUE, mem |-> PokeWord(m, aligned_addr, updated_word),
                old |-> orig_byte]

(***************************************************************************)
(* Target.breakpoints as a function from the addresses that have an entry. *)
(***************************************************************************)
Breakpoint(addr, idx, original_byte, set_on_continue) ==
    [address |-> addr, idx |-> idx, original_byte |-> original_byte,
     set_on_continue |-> set_on_continue]

Insert(bps, addr, bp) ==
    [x \in (DOMAIN bps) \cup {addr} |-> IF x = addr THEN bp ELSE bps[x]]

Remove(bps, addr) == [x \in (DOMAIN bps) \ {addr} |-> bps[x]]

Flagged(bps) == {a \in DOMAIN bps : bps[a].set_on_continue}

\* The orders in which a HashMap may iterate the entries of S.
Orders(S) ==
    {o \in [1 .. Cardinality(S) -> S] : \A i, j \in DOMAIN o : i # j => o[i] # o[j]}

\* What an operation leaves for the observer; fields an operation does not
\* use keep these values.
OpNone ==
    [name |-> "none", addr |-> NoAddr, ok |-> TRUE, created |-> FALSE,
     status |-> "none", hit |-> NoAddr, stepped |-> FALSE,
     exec_addr |-> NoAddr, exec_byte |-> NoAddr, before |-> [a \in Addr |-> 0]]

RtNone == [valid |-> FALSE, addr |-> NoAddr, before |-> [a \in Addr |-> 0]]

\* A ptrace request on the child succeeds only while the child is in a
\* ptrace-stop; the caller issues requests only when it has no resume of its
\* own still to wait for (the initial stop after execve counts as stopped).
Attached == run = "stopped" /\ (pending = "none" \/ cause.kind = "exec")

\* Variant: no check for an existing entry (as Debugger::set_breakpoint).
SetBreakpointAlways(addr) ==
    /\ UNCHANGED <<dvars, xvars>>
    /\ Attached
    /\ next_bp_num < MaxBpNum
    /\ LET bp_idx == next_bp_num
           w == write_byte(mem, addr, INT3)
       IN /\ next_bp_num' = next_bp_num + 1
          /\ mem' = w.mem
          /\ breakpoints' =
                IF w.ok
                THEN Insert(breakpoints, addr, Breakpoint(addr, bp_idx, w.old, FALSE))
                ELSE breakpoints
          /\ ptrace_failed' = (ptrace_failed \/ ~w.ok)
          /\ n_created' = IF w.ok THEN n_created + 1 ELSE n_created
          /\ op' = [OpNone EXCEPT !.name = "set_breakpoint", !.addr = addr,
                                  !.ok = w.ok, !.created = w.ok, !.before = mem]
    /\ rt' = RtNone
    /\ UNCHANGED <<prog, rip, run, pending, cause>>

(***************************************************************************)
(* Target::set_breakpoint                                                  *)
(***************************************************************************)
SetBreakpoint(addr) ==
    /\ UNCHANGED <<dvars, xvars>>
    /\ Attached
    /\ IF addr \in DOMAIN breakpoints
       THEN /\ UNCHANGED <<mem, breakpoints, next_bp_num, ptrace_failed, n_created>>
            /\ op' = [OpNone EXCEPT !.name = "set_breakpoint", !.addr = addr,
                                    !.before = mem]
       ELSE /\ next_bp_num < MaxBpNum
            /\ LET bp_idx == next_bp_num
                   w == write_byte(mem, addr, INT3)
               IN /\ next_bp_num' = next_bp_num + 1
                  /\ mem' = w.mem
                  /\ breakpoints' =
                        IF w.ok
                        THEN Insert(breakpoints, addr,
                                    Breakpoint(addr, bp_idx, w.old, FALSE))
                        ELSE breakpoints
                  /\ ptrace_failed' = (ptrace_failed \/ ~w.ok)
                  /\ n_created' = IF w.ok THEN n_created + 1 ELSE n_created
                  /\ op' = [OpNone EXCEPT !.name = "set_breakpoint",
                                          !.addr = addr, !.ok = w.ok,
                                          !.created = w.ok, !.before = mem]
    /\ rt' = RtNone
    /\ UNCHANGED <<prog, rip, run, pending, cause>>

(***************************************************************************)
(* Target::restore_breakpoint and Target::delete_breakpoint                *)
(***************************************************************************)
\* Variant: the entry is found but the original byte is not written back.
restore_breakpoint_nowrite(m, bps, addr) ==
    [found |-> addr \in DOMAIN bps, mem |-> m, wrote |-> TRUE]

\* Variant: without an entry the byte at addr is cleared.
restore_breakpoint_zero(m, bps, addr) ==
    IF addr \in DOMAIN bps
    THEN [found |-> TRUE, mem |-> write_byte(m, addr, bps[addr].original_byte).mem,
          wrote |-> write_byte(m, addr, bps[addr].original_byte).ok]
    ELSE [found |-> FALSE, mem |-> write_byte(m, addr, 0).mem, wrote |-> TRUE]

\* The memory restore_breakpoint leaves; the result of the write is dropped.
restore_breakpoint(m, bps, addr) ==
    IF addr \in DOMAIN bps
    THEN [found |-> TRUE, mem |-> write_byte(m, addr, bps[addr].original_byte).mem,
          wrote |-> write_byte(m, addr, bps[addr].original_byte).ok]
    ELSE [found |-> FALSE, mem |-> m, wrote |-> TRUE]

\* Called after cont while the child runs, the PEEKDATA of write_byte fails
\* with ESRCH; restore_breakpoint drops that error and still answers Ok(true).
\* (Without an entry the call makes no ptrace request, running child or not;
\* that case is explored on the stopped child.)
DeleteBreakpoint(addr) ==
    /\ UNCHANGED <<dvars, xvars, n_created>>
    /\ Attached \/ (run = "cont" /\ addr \in DOMAIN breakpoints)
    /\ LET r == IF Attached
                THEN restore_breakpoint(mem, breakpoints, addr)
                ELSE [found |-> addr \in DOMAIN breakpoints, mem |-> mem,
                      wrote |-> addr \notin DOMAIN breakpoints]
       IN /\ mem' = r.mem
          /\ breakpoints' = IF r.found THEN Remove(breakpoints, addr) ELSE breakpoints
          /\ ptrace_failed' = (ptrace_failed \/ ~r.wrote)
          /\ op' = [OpNone EXCEPT !.name = "delete_breakpoint", !.addr = addr,
                                  !.created = r.found]
          /\ rt' = IF op.name = "set_breakpoint" /\ op.addr = addr
                      /\ (op.created \/ ~op.ok)
                   THEN [valid |-> TRUE, addr |-> addr, before |-> op.before]
                   ELSE RtNone
    /\ UNCHANGED <<prog, rip, run, pending, cause, next_bp_num>>

(***************************************************************************)
(* Target::step: PTRACE_SINGLESTEP; the caller waits.                      *)
(***************************************************************************)
Step ==
    /\ UNCHANGED <<dvars, xvars, n_created>>
    /\ Attached
    /\ run' = "step"
    /\ pending' = "none"
    /\ op' = [OpNone EXCEPT !.name = "step"]
    /\ UNCHANGED <<prog, mem, rip, cause, breakpoints, next_bp_num, rt, ptrace_failed>>

(***************************************************************************)
(* Target::cont                                                            *)
(***************************************************************************)
\* The value the loop leaves in need_single_step after re-arming addr.
need_single_step_after(need, addr, ip) == addr = ip

\* The re-arming loop over the flagged entries in iteration order `order`,
\* from position i: the first failing write returns from cont.
RECURSIVE Rearm(_, _, _, _, _)
Rearm(m, order, i, need, ip) ==
    IF i > Len(order)
    THEN [ok |-> TRUE, mem |-> m, need |-> need]
    ELSE LET w == write_byte(m, order[i], INT3)
         IN IF ~w.ok
            THEN [ok |-> FALSE, mem |-> m, need |-> need]
            ELSE Rearm(w.mem, order, i + 1,
                       need_single_step_after(need, order[i], ip), ip)

\* Variant: the flags are left as they are.
ClearFlagsNone(bps) == bps

ClearFlags(bps) == [a \in DOMAIN bps |-> [bps[a] EXCEPT !.set_on_continue = FALSE]]

Cont ==
    /\ UNCHANGED <<dvars, xvars, n_created>>
    /\ Attached
    /\ \E order \in Orders(Flagged(breakpoints)) :
         LET r == Rearm(mem, order, 1, FALSE, rip)
         IN IF ~r.ok
            THEN \* write_byte(..)? returned the error
                 /\ mem' = r.mem
                 /\ ptrace_failed' = TRUE
                 /\ op' = [OpNone EXCEPT !.name = "cont", !.ok = FALSE]
                 /\ UNCHANGED <<rip, run, pending, cause, breakpoints>>
            ELSE /\ mem' = r.mem
                 /\ breakpoints' = ClearFlags(breakpoints)
                 /\ IF r.need
                    THEN \* self.step()?; wait()?; then PTRACE_CONT
                         LET s == StepOne(r.mem, rip)
                         IN /\ rip' = s.rip
                            /\ cause' = [kind |-> s.kind, addr |-> rip]
                            /\ pending' = "none"
                            /\ run' = IF s.status = "Exited" THEN "exited" ELSE "cont"
                            /\ ptrace_failed' = (ptrace_failed \/ s.status = "Exited")
                            /\ op' = [OpNone EXCEPT !.name = "cont",
                                        !.ok = (s.status # "Exited"),
                                        !.stepped = TRUE, !.exec_addr = rip,
                                        !.exec_byte = r.mem[rip]]
                    ELSE /\ run' = "cont"
                         /\ pending' = "none"
                         /\ op' = [OpNone EXCEPT !.name = "cont"]
                         /\ UNCHANGED <<rip, cause, ptrace_failed>>
    /\ UNCHANGED <<prog, next_bp_num, rt>>

(***************************************************************************)
(* Target::wait                                                            *)
(***************************************************************************)
\* Variant: rip is used as it is, without stepping back over the int3.
wait_lookup_norewind(ip) == ip

\* The address wait looks up after a SIGTRAP stop.
wait_lookup(ip) == ip - 1

\* Variant: every wait status is treated as a breakpoint trap.
is_breakpoint_trap_any(status) == TRUE

\* The statuses after which wait looks for a breakpoint.
is_breakpoint_trap(status) == status = "SIGTRAP"

Wait ==
    /\ UNCHANGED <<dvars, xvars, n_created>>
    /\ pending # "none"
    /\ pending' = "none"
    /\ IF is_breakpoint_trap(pending) /\ wait_lookup(rip) \in DOMAIN breakpoints
       THEN LET a == wait_lookup(rip)
            IN /\ rip' = a
               /\ breakpoints' = [breakpoints EXCEPT ![a].set_on_continue = TRUE]
               /\ mem' = restore_breakpoint(mem, breakpoints, a).mem
               /\ op' = [OpNone EXCEPT !.name = "wait", !.status = pending, !.hit = a]
       ELSE /\ op' = [OpNone EXCEPT !.name = "wait", !.status = pending]
            /\ UNCHANGED <<rip, breakpoints, mem>>
    /\ UNCHANGED <<prog, run, cause, next_bp_num, rt, ptrace_failed>>

(***************************************************************************)
(* Target::print_registers and Target::print_backtrace only read.          *)
(***************************************************************************)
PrintRegisters ==
    /\ UNCHANGED <<dvars, xvars, n_created>>
    /\ Attached
    /\ op.name # "print_registers"
    /\ op' = [OpNone EXCEPT !.name = "print_registers"]
    /\ UNCHANGED <<prog, mem, rip, run, pending, cause, breakpoints, next_bp_num,
                   rt, ptrace_failed>>

PrintBacktrace ==
    /\ UNCHANGED <<dvars, xvars, n_created>>
    /\ Attached
    /\ op.name # "print_backtrace"
    /\ op' = [OpNone EXCEPT !.name = "print_backtrace"]
    /\ UNCHANGED <<prog, mem, rip, run, pending, cause, breakpoints, next_bp_num,
                   rt, ptrace_failed>>

(***************************************************************************)
(* The child runs: one instruction per step while resumed.                 *)
(***************************************************************************)
TraceeStep ==
    /\ UNCHANGED <<dvars, xvars, n_created>>
    /\ run \in {"cont", "step"}
    /\ LET r == IF run = "step" THEN StepOne(mem, rip) ELSE ExecOne(mem, rip)
       IN /\ rip' = r.rip
          /\ IF r.status = "run"
             THEN UNCHANGED <<run, pending, cause>>
             ELSE /\ run' = IF r.status = "Exited" THEN "exited" ELSE "stopped"
                  /\ pending' = r.status
                  /\ cause' = [kind |-> r.kind, addr |-> rip]
    /\ UNCHANGED <<prog, mem, breakpoints, next_bp_num, op, rt, ptrace_failed>>

\* A specification that does not run the call-stack child leaves it unloaded.
BtNone == [valid |-> FALSE, frames |-> <<>>, panicked |-> FALSE]

BtIdle ==
    /\ sprog = [callee |-> [f \in {} |-> "none"], xsize |-> 0, xval |-> <<>>]
    /\ smem = [a \in {} |-> 0]
    /\ regs = [rip |-> NoAddr, rsp |-> NoAddr, rbp |-> NoAddr]
    /\ calls = <<>>
    /\ bt = BtNone
    /\ cfa = NoAddr

\* A specification that parses no DIE.
DieIdle ==
    /\ die = <<>>
    /\ fn_out = <<>>

\* A specification that collects no unit, parses no line and makes no memory
\* call of its own.
InfoIdle ==
    /\ dwarf = <<>>
    /\ types = [o \in {} |-> 0]
    /\ functions = <<>>
    /\ collected = FALSE

ParseIdle ==
    /\ line = <<>>
    /\ command = [by |-> "none"]

MemIdle == mcall = [fn |-> "none"]

\* A specification that does not follow the forked child past fork().
ForkIdle == forked = [pc |-> "none"]

ZIdle == InfoIdle /\ ParseIdle /\ MemIdle /\ ForkIdle

\* Debugger::create: no child yet.
DbgInit ==
    /\ child_pid = "None"
    /\ dbg_breakpoints = {}
    /\ breakpoint_restore_info = [a \in {} |-> 0]
    /\ breakpoints_outstanding = {}
    /\ repl = "read"
    /\ children = 0
    /\ cmd = "none"
    /\ deleted = {}

(***************************************************************************)
(* Target::create: the child is forked and stops after execve; create      *)
(* returns without waiting for that stop.                                  *)
(***************************************************************************)
Init ==
    /\ prog \in Programs
    /\ mem = prog
    /\ rip = TextBase
    /\ run = "stopped"
    /\ pending = "SIGTRAP"
    /\ cause = [kind |-> "exec", addr |-> NoAddr]
    /\ breakpoints = [a \in {} |-> Breakpoint(a, 0, 0, FALSE)]
    /\ next_bp_num = 0
    /\ op = OpNone
    /\ rt = RtNone
    /\ ptrace_failed = FALSE
    /\ n_created = 0
    /\ DbgInit
    /\ ZIdle
    /\ BtIdle
    /\ DieIdle

Next ==
    \/ \E addr \in AddrInputs : SetBreakpoint(addr)
    \/ \E addr \in AddrInputs : DeleteBreakpoint(addr)
    \/ Step
    \/ Cont
    \/ Wait
    \/ PrintRegisters
    \/ PrintBacktrace
    \/ TraceeStep

Spec == Init /\ [][Next]_vars

(***************************************************************************)
(* The Debugger session of debugger.rs: run_repl reads a command, lets     *)
(* handle_command act, and calls wait_for_child when it returns true.      *)
(***************************************************************************)
\* A ptrace request of the Debugger succeeds only on a child in a ptrace-stop.
ChildStopped == child_pid = "Some" /\ run = "stopped"

Panic ==
    /\ repl' = "panic"
    /\ UNCHANGED <<child_pid, dbg_breakpoints, breakpoint_restore_info,
                   breakpoints_outstanding, children, deleted>>
    /\ UNCHANGED tvars

\* Debugger::write_byte is the code of Target::write_byte.
DbgWriteByte(m, addr, byte) == write_byte(m, addr, byte)

\* Debugger::set_breakpoint for each address of `order` in turn: the memory
\* and the restore info they leave.
RECURSIVE DbgSetAll(_, _, _, _)
DbgSetAll(m, info, order, i) ==
    IF i > Len(order)
    THEN [ok |-> TRUE, mem |-> m, info |-> info]
    ELSE LET w == DbgWriteByte(m, order[i], INT3)
         IN IF ~w.ok
            THEN [ok |-> FALSE, mem |-> m, info |-> info]
            ELSE DbgSetAll(w.mem, Insert(info, order[i], w.old), order, i + 1)

\* Debugger::start_child: fork, then one wait().  With an earlier child whose
\* stop was never reaped, that wait() may return the earlier child's status
\* and leave the new child's exec stop unreaped.
CmdStart ==
    /\ repl = "read"
    /\ cmd' = "other"
    /\ children < MaxChildren
    /\ child_pid' = "Some"
    /\ children' = children + 1
    /\ mem' = prog
    /\ rip' = TextBase
    /\ run' = "stopped"
    /\ cause' = [kind |-> "exec", addr |-> NoAddr]
    /\ \/ pending' = "none"
       \/ /\ child_pid = "Some" /\ (pending # "none" \/ run \in {"step", "cont"})
          /\ pending' = "SIGTRAP"
    /\ UNCHANGED <<prog, dbg_breakpoints, breakpoint_restore_info,
                   breakpoints_outstanding, repl, deleted>>
    /\ UNCHANGED <<gvars, hvars, xvars>>

\* handle_command(Continue)
CmdContinue ==
    /\ repl = "read"
    /\ cmd' = "Continue"
    /\ UNCHANGED <<gvars, hvars, xvars>>
    /\ IF child_pid = "None"
       THEN UNCHANGED <<tvars, child_pid, dbg_breakpoints, breakpoint_restore_info,
                        breakpoints_outstanding, repl, children, deleted>>
       ELSE IF run # "stopped"
       THEN Panic
       ELSE \E order \in Orders(breakpoints_outstanding) :
              LET perform_one_singlestep == rip \in breakpoints_outstanding
                  r == DbgSetAll(mem, breakpoint_restore_info, order, 1)
                  s == StepOne(r.mem, rip)
              IN IF ~r.ok \/ (perform_one_singlestep /\ s.status = "Exited")
                 THEN /\ repl' = "panic"
                      /\ mem' = r.mem
                      /\ breakpoint_restore_info' = r.info
                      /\ breakpoints_outstanding' = {}
                      /\ rip' = IF r.ok THEN s.rip ELSE rip
                      /\ run' = IF r.ok THEN "exited" ELSE run
                      /\ UNCHANGED <<prog, pending, cause, child_pid,
                                     dbg_breakpoints, children, deleted>>
                 ELSE /\ mem' = r.mem
                      /\ breakpoint_restore_info' = r.info
                      /\ dbg_breakpoints' = dbg_breakpoints \cup breakpoints_outstanding
                      /\ breakpoints_outstanding' = {}
                      /\ rip' = IF perform_one_singlestep THEN s.rip ELSE rip
                      /\ cause' = IF perform_one_singlestep
                                  THEN [kind |-> s.kind, addr |-> rip] ELSE cause
                      /\ run' = "cont"
                      /\ pending' = "none"
                      /\ repl' = "wait"
                      /\ UNCHANGED <<prog, child_pid, children, deleted>>

\* handle_command(SetBp(addr)): self.set_breakpoint(addr).unwrap()
CmdSetBp(addr) ==
    /\ repl = "read"
    /\ cmd' = "other"
    /\ UNCHANGED <<gvars, hvars, xvars>>
    /\ LET w == DbgWriteByte(mem, addr, INT3)
       IN IF ~ChildStopped \/ ~w.ok
          THEN Panic
          ELSE /\ mem' = w.mem
               /\ dbg_breakpoints' = dbg_breakpoints \cup {addr}
               /\ breakpoint_restore_info' = Insert(breakpoint_restore_info, addr, w.old)
               /\ deleted' = deleted \ {addr}
               /\ UNCHANGED <<prog, rip, run, pending, cause, child_pid,
                              breakpoints_outstanding, repl, children>>

\* Debugger::restore_breakpoint: the memory it leaves (the result of the
\* write is dropped) and whether restore info was found.
dbg_restore_breakpoint(m, info, addr) ==
    IF addr \in DOMAIN info
    THEN [found |-> TRUE, mem |-> DbgWriteByte(m, addr, info[addr]).mem]
    ELSE [found |-> FALSE, mem |-> m]

\* handle_command(DeleteBp(addr)): self.restore_breakpoint(addr).unwrap()
CmdDeleteBp(addr) ==
    /\ repl = "read"
    /\ cmd' = "other"
    /\ UNCHANGED <<gvars, hvars, xvars>>
    /\ IF addr \notin DOMAIN breakpoint_restore_info
       THEN UNCHANGED <<tvars, child_pid, dbg_breakpoints, breakpoint_restore_info,
                        breakpoints_outstanding, repl, children, deleted>>
       ELSE IF child_pid = "None"
       THEN Panic     \* self.child_pid.unwrap() in write_byte
       ELSE /\ mem' = IF run = "stopped"
                      THEN dbg_restore_breakpoint(mem, breakpoint_restore_info, addr).mem
                      ELSE mem
            /\ deleted' = IF run = "stopped" THEN deleted \cup {addr} ELSE deleted
            /\ UNCHANGED <<prog, rip, run, pending, cause, child_pid, dbg_breakpoints,
                           breakpoint_restore_info, breakpoints_outstanding, repl,
                           children>>

\* handle_command(SingleStep): ptrace::step, and no wait follows.
CmdSingleStep ==
    /\ repl = "read"
    /\ cmd' = "other"
    /\ UNCHANGED <<gvars, hvars, xvars>>
    /\ IF ~ChildStopped
       THEN Panic
       ELSE /\ run' = "step"
            /\ pending' = "none"
            /\ UNCHANGED <<prog, mem, rip, cause, child_pid, dbg_breakpoints,
                           breakpoint_restore_info, breakpoints_outstanding, repl,
                           children, deleted>>

\* handle_command(GetRegs)
CmdGetRegs ==
    /\ repl = "read"
    /\ cmd' = "other"
    /\ UNCHANGED <<gvars, hvars, xvars>>
    /\ IF ~ChildStopped
       THEN Panic
       ELSE UNCHANGED <<tvars, child_pid, dbg_breakpoints, breakpoint_restore_info,
                        breakpoints_outstanding, repl, children, deleted>>

\* handle_command(Unknown): only prints.
CmdUnknown ==
    /\ repl = "read"
    /\ cmd' = "other"
    /\ UNCHANGED <<gvars, hvars, xvars>>
    /\ UNCHANGED <<tvars, child_pid, dbg_breakpoints, breakpoint_restore_info,
                   breakpoints_outstanding, repl, children, deleted>>

\* run_repl on Exit: kill the child if there is one, then return.  PTRACE_KILL
\* succeeds on any child that is still traced, stopped or not.
CmdExit ==
    /\ repl = "read"
    /\ cmd' = "other"
    /\ UNCHANGED <<gvars, hvars, xvars>>
    /\ repl' = "done"
    /\ run' = IF child_pid = "Some" THEN "killed" ELSE run
    /\ UNCHANGED <<prog, mem, rip, pending, cause, child_pid, dbg_breakpoints,
                   breakpoint_restore_info, breakpoints_outstanding, children,
                   deleted>>

\* Variant: the child is kept whatever the status.
child_after_wait_keep(status, pid) == pid

\* wait_for_child: an Exited status drops the child.
child_after_wait(status, pid) == IF status = "Exited" THEN "None" ELSE pid

\* Debugger::wait_for_child, then the location lookup of run_repl.
WaitForChild ==
    /\ repl = "wait"
    /\ pending # "none"
    /\ pending' = "none"
    /\ repl' = "read"
    /\ UNCHANGED <<gvars, hvars, cmd, xvars>>
    /\ IF pending = "SIGTRAP" /\ (rip - 1) \in DOMAIN breakpoint_restore_info
       THEN /\ mem' = dbg_restore_breakpoint(mem, breakpoint_restore_info, rip - 1).mem
            /\ breakpoints_outstanding' = breakpoints_outstanding \cup {rip - 1}
            /\ rip' = rip - 1
            /\ UNCHANGED <<child_pid, children>>
       ELSE /\ child_pid' = child_after_wait(pending, child_pid)
            /\ children' = IF pending = "Exited" THEN children - 1 ELSE children
            /\ UNCHANGED <<mem, rip, breakpoints_outstanding>>
    /\ UNCHANGED <<prog, run, cause, dbg_breakpoints, breakpoint_restore_info, deleted>>

DbgTraceeStep == TraceeStep /\ child_pid = "Some"

\* The session starts with no child; the program waits on disk.
DbgSpecInit ==
    /\ prog \in Programs
    /\ mem = prog
    /\ rip = TextBase
    /\ run = "absent"
    /\ pending = "none"
    /\ cause = [kind |-> "none", addr |-> NoAddr]
    /\ breakpoints = [a \in {} |-> Breakpoint(a, 0, 0, FALSE)]
    /\ next_bp_num = 0
    /\ op = OpNone
    /\ rt = RtNone
    /\ ptrace_failed = FALSE
    /\ n_created = 0
    /\ DbgInit
    /\ ZIdle
    /\ BtIdle
    /\ DieIdle

DbgNext ==
    \/ CmdStart
    \/ CmdContinue
    \/ \E addr \in DbgAddrInputs : CmdSetBp(addr)
    \/ \E addr \in DbgAddrInputs : CmdDeleteBp(addr)
    \/ CmdSingleStep
    \/ CmdGetRegs
    \/ CmdUnknown
    \/ CmdExit
    \/ WaitForChild
    \/ DbgTraceeStep

DbgSpec == DbgSpecInit /\ [][DbgNext]_vars

(***************************************************************************)
(* A child with a call stack.  Every function has the standard frame:      *)
(*   low_pc+0  push rbp        low_pc+1  mov rbp,rsp                       *)
(*   low_pc+4  call g (or, in a leaf, the stores of its variables)         *)
(*   low_pc+9  pop rbp         low_pc+10 ret                               *)
(* The debugger may stop it before any instruction.                        *)
(***************************************************************************)
StackSize == StackWords * WORD
SAddr == 0 .. (StackSize - 1)

\* Where the executable is mapped (Target.base_address).
BaseAddress == 128
\* The return address of main: in libc, which the debug info does not cover.
LibcRet == 250
\* Any value that does not fit the two low bytes of a word.
BigValue == 65536

FnNames == {"main", "b", "a"}
FnLowPc == [main |-> 0, b |-> 16, a |-> 32]
FnLen == 11
Prologue == 4
EpilogueAt == 9

\* main calls b calls a; or main calls a.
Chains == {[main |-> "b", b |-> "a", a |-> "none"],
           [main |-> "a", b |-> "none", a |-> "none"]}

\* The 4-byte values the leaf stores into its parameter x: 42 and -1.
XValues == {<<42, 0, 0, 0>>, <<255, 255, 255, 255>>}
\* The byte sizes the type of x may have.
ByteSizes == {1, 2, 4, 8, 16}
\* The 8 bytes the leaf stores into its local y.
YValue == <<1, 2, 3, 4, 5, 6, 7, 8>>

\* Type ids of the debug info.
TypeX == 1
TypeY == 2

\* GimliWrapper.functions of the program: x is a parameter of a at rbp - 4,
\* y a local of a at rbp - 16 (fbreg offsets are relative to the CFA).
DwarfFunctions ==
    [f \in FnNames |->
        [name |-> f,
         address_range |-> <<FnLowPc[f], FnLowPc[f] + FnLen - 1>>,
         formal_parameters |->
            IF f = "a" THEN <<[name |-> "x", t |-> TypeX, fbreg_offset |-> 0 - 20]>>
            ELSE <<>>,
         local_variables |->
            IF f = "a" THEN <<[name |-> "y", t |-> TypeY, fbreg_offset |-> 0 - 32]>>
            ELSE <<>>]]

ZeroWord == [i \in 0 .. (WORD - 1) |-> 0]
AllOnes == [i \in 0 .. (WORD - 1) |-> 255]

\* A small value as a little-endian u64.
EncodeWord(v) ==
    [i \in 0 .. (WORD - 1) |->
        IF i = 0 THEN v % 256 ELSE IF i = 1 THEN (v \div 256) % 256 ELSE 0]

DecodeWord(w) ==
    IF \A i \in 2 .. (WORD - 1) : w[i] = 0 THEN w[0] + 256 * w[1] ELSE BigValue

\* PTRACE_PEEKDATA at any address (it need not be aligned).
ReadWord(m, addr) ==
    IF addr \in SAddr /\ (addr + WORD - 1) \in SAddr
    THEN [ok |-> TRUE, w |-> [i \in 0 .. (WORD - 1) |-> m[addr + i]]]
    ELSE [ok |-> FALSE, w |-> ZeroWord]

WriteBytes(m, addr, bytes) ==
    [x \in SAddr |->
        IF x >= addr /\ x < addr + Len(bytes) THEN bytes[x - addr + 1] ELSE m[x]]

WordSeq(w) == [i \in 1 .. WORD |-> w[i - 1]]

\* The function whose code holds the virtual address v, and the offset in it.
FnAt(v) == {f \in FnNames : v >= FnLowPc[f] /\ v < FnLowPc[f] + FnLen}

\* One instruction of the child.
StackStep ==
    /\ UNCHANGED <<tvars, gvars, hvars, dvars, pvars, zvars>>
    /\ FnAt(regs.rip - BaseAddress) # {}
    /\ bt' = BtNone
    /\ cfa' = NoAddr
    /\ UNCHANGED sprog
    /\ LET f == CHOOSE f \in FnAt(regs.rip - BaseAddress) : TRUE
           off == regs.rip - BaseAddress - FnLowPc[f]
       IN CASE off = 0 ->          \* push rbp
                 /\ smem' = WriteBytes(smem, regs.rsp - WORD, WordSeq(EncodeWord(regs.rbp)))
                 /\ regs' = [regs EXCEPT !.rsp = @ - WORD, !.rip = @ + 1]
                 /\ UNCHANGED calls
            [] off = 1 ->          \* mov rbp,rsp
                 /\ regs' = [regs EXCEPT !.rbp = regs.rsp, !.rip = @ + 3]
                 /\ UNCHANGED <<smem, calls>>
            [] off = Prologue /\ sprog.callee[f] # "none" ->     \* call g
                 /\ smem' = WriteBytes(smem, regs.rsp - WORD,
                                       WordSeq(EncodeWord(regs.rip + 5)))
                 /\ regs' = [regs EXCEPT !.rsp = @ - WORD,
                                         !.rip = BaseAddress + FnLowPc[sprog.callee[f]]]
                 /\ calls' = Append(calls, [fn |-> sprog.callee[f], sp |-> regs.rsp])
            [] off = Prologue /\ sprog.callee[f] = "none" ->     \* x = ..; y = ..
                 /\ smem' = WriteBytes(WriteBytes(smem, regs.rbp - 4, sprog.xval),
                                       regs.rbp - 16, YValue)
                 /\ regs' = [regs EXCEPT !.rip = @ + 5]
                 /\ UNCHANGED calls
            [] off = EpilogueAt -> \* pop rbp
                 /\ regs' = [regs EXCEPT !.rbp = DecodeWord(ReadWord(smem, regs.rsp).w),
                                         !.rsp = @ + WORD, !.rip = @ + 1]
                 /\ UNCHANGED <<smem, calls>>
            [] off = EpilogueAt + 1 ->     \* ret
                 /\ regs' = [regs EXCEPT !.rip = DecodeWord(ReadWord(smem, regs.rsp).w),
                                         !.rsp = @ + WORD]
                 /\ calls' = SubSeq(calls, 1, Len(calls) - 1)
                 /\ UNCHANGED smem

(***************************************************************************)
(* Target::get_cfa, get_offset_from_cfa, print_local, print_backtrace      *)
(***************************************************************************)
\* Variant: only the return address is counted.
get_cfa_ret_only(r) == r.rbp + 8

get_cfa(r) == r.rbp + 16

\* util::add_offset; a result below zero stands for the panic of checked_sub.
add_offset(address, offset) ==
    IF offset < 0 THEN address - (0 - offset) ELSE address + offset

get_offset_from_cfa(rbp, offset) == add_offset(rbp + 16, offset)

\* DebugInfo::get_location_at_addr: the name of the function that holds the
\* virtual address, "None" where the debug info has nothing.
get_location_at_addr(addr) ==
    IF \E f \in FnNames : addr >= DwarfFunctions[f].address_range[1]
                          /\ addr <= DwarfFunctions[f].address_range[2]
    THEN CHOOSE f \in FnNames : addr >= DwarfFunctions[f].address_range[1]
                                /\ addr <= DwarfFunctions[f].address_range[2]
    ELSE "None"

get_function_by_name(fname) == DwarfFunctions[fname]

get_type_byte_size(prog_, t) == IF t = TypeX THEN prog_.xsize ELSE WORD

RECURSIVE BitAnd(_, _, _)
BitAnd(x, y, n) ==
    IF n = 0 THEN 0
    ELSE (x % 2) * (y % 2) + 2 * BitAnd(x \div 2, y \div 2, n - 1)

WordAnd(x, y) == [i \in 0 .. (WORD - 1) |-> BitAnd(x[i], y[i], 8)]

\* 1u64.checked_shl(bits): None from 64 bits on.
checked_shl_one(bits) ==
    IF bits >= 8 * WORD
    THEN [some |-> FALSE, w |-> ZeroWord]
    ELSE [some |-> TRUE,
          w |-> [i \in 0 .. (WORD - 1) |-> IF i = bits \div 8 THEN 2 ^ (bits % 8) ELSE 0]]

\* w - 1 on a nonzero u64: the borrow runs through the zero low bytes.
WordSubOne(w) ==
    LET k == CHOOSE k \in 0 .. (WORD - 1) :
                w[k] # 0 /\ \A j \in 0 .. (WORD - 1) : j < k => w[j] = 0
    IN [i \in 0 .. (WORD - 1) |->
            IF i < k THEN 255 ELSE IF i = k THEN w[k] - 1 ELSE w[i]]

\* Variant: the mask covers the whole word whatever the size.
val_mask_full(val_size) == AllOnes

val_mask(val_size) ==
    LET s == checked_shl_one(8 * val_size)
    IN IF s.some THEN WordSubOne(s.w) ELSE AllOnes

\* What print_local prints for one variable of the frame at rbp.
print_local(m, prog_, rbp, fbreg_offset, t, name) ==
    LET val_addr == get_offset_from_cfa(rbp, fbreg_offset)
        val_size == get_type_byte_size(prog_, t)
        val == ReadWord(m, val_addr).w          \* unwrap_or(0)
    IN [name |-> name, off |-> fbreg_offset, size |-> val_size,
        val |-> WordAnd(val, val_mask(val_size))]

PrintLocals(m, prog_, rbp, function) ==
    [i \in 1 .. Len(function.formal_parameters) |->
        print_local(m, prog_, rbp, function.formal_parameters[i].fbreg_offset,
                    function.formal_parameters[i].t, function.formal_parameters[i].name)]
    \o
    [i \in 1 .. Len(function.local_variables) |->
        print_local(m, prog_, rbp, function.local_variables[i].fbreg_offset,
                    function.local_variables[i].t, function.local_variables[i].name)]

\* The loop of print_backtrace from (rbp, rip); `fuel` bounds the frames.
RECURSIVE print_backtrace(_, _, _, _, _)
print_backtrace(m, prog_, rbp, rip_, fuel) ==
    IF rbp = 0 \/ fuel = 0
    THEN [frames |-> <<>>, panicked |-> FALSE]
    ELSE LET location == get_location_at_addr(rip_ - BaseAddress)
         IN IF location = "None"
            THEN [frames |-> <<>>, panicked |-> FALSE]
            ELSE LET frame == [fn |-> location, rbp |-> rbp,
                               vals |-> PrintLocals(m, prog_, rbp,
                                                    get_function_by_name(location))]
                     next_rip == ReadWord(m, rbp + 8)
                     next_rbp == ReadWord(m, rbp)
                 IN IF ~next_rip.ok \/ ~next_rbp.ok
                    THEN [frames |-> <<frame>>, panicked |-> TRUE]
                    ELSE LET rest == print_backtrace(m, prog_, DecodeWord(next_rbp.w),
                                                     DecodeWord(next_rip.w), fuel - 1)
                         IN [frames |-> <<frame>> \o rest.frames,
                             panicked |-> rest.panicked]

\* The debugger prints a backtrace of the stopped child.
PrintBacktraceFrames ==
    /\ UNCHANGED <<tvars, gvars, hvars, dvars, pvars, zvars>>
    /\ ~bt.valid
    /\ LET r == print_backtrace(smem, sprog, regs.rbp, regs.rip, MaxFrames)
       IN bt' = [valid |-> TRUE, frames |-> r.frames, panicked |-> r.panicked]
    /\ UNCHANGED <<sprog, smem, regs, calls, cfa>>

\* The debugger asks for the CFA of the stopped child.
GetCfa ==
    /\ UNCHANGED <<tvars, gvars, hvars, dvars, pvars, zvars>>
    /\ cfa = NoAddr
    /\ cfa' = get_cfa(regs)
    /\ UNCHANGED <<sprog, smem, regs, calls, bt>>

\* The child is stopped at the entry of main, called from libc with rbp = 0.
BtInit ==
    /\ sprog \in [callee : Chains, xsize : ByteSizes, xval : XValues]
    /\ smem = WriteBytes([a \in SAddr |-> 0], StackSize - WORD,
                         WordSeq(EncodeWord(LibcRet)))
    /\ regs = [rip |-> BaseAddress + FnLowPc["main"], rsp |-> StackSize - WORD,
               rbp |-> 0]
    /\ calls = <<[fn |-> "main", sp |-> StackSize]>>
    /\ bt = BtNone
    /\ cfa = NoAddr
    /\ prog = [a \in Addr |-> INT3]
    /\ mem = prog
    /\ rip = NoAddr
    /\ run = "absent"
    /\ pending = "none"
    /\ cause = [kind |-> "none", addr |-> NoAddr]
    /\ breakpoints = [a \in {} |-> Breakpoint(a, 0, 0, FALSE)]
    /\ next_bp_num = 0
    /\ op = OpNone
    /\ rt = RtNone
    /\ ptrace_failed = FALSE
    /\ n_created = 0
    /\ DbgInit
    /\ ZIdle
    /\ DieIdle

BtNext ==
    \/ StackStep
    \/ PrintBacktraceFrames
    \/ GetCfa

BtSpec == BtInit /\ [][BtNext]_vars

(***************************************************************************)
(* GimliWrapper::process_subprogram (the same code as                      *)
(* DebugInfo::process_subprogram) over the attributes of one DIE.          *)
(***************************************************************************)
\* Addresses a DW_AT_low_pc carries, and addresses a DW_AT_high_pc of class
\* address carries.
DieLowPcs == {1, 16}
DieHighAddrs == {16, 40}

Attr(name, form, v) == [name |-> name, form |-> form, v |-> v]

DieLowAttrs == {Attr("DW_AT_low_pc", "Addr", v) : v \in DieLowPcs}
DieHighAttrs ==
    {Attr("DW_AT_high_pc", "Udata", n) : n \in 0 .. MaxFnLen}
    \cup {Attr("DW_AT_high_pc", "Addr", v) : v \in DieHighAddrs}
DieNameAttrs == {Attr("DW_AT_name", "String", 0)}

\* The DIEs parsed: one name, one low_pc and one high_pc, in every order.
DieInputs ==
    {d \in [1 .. 3 -> DieLowAttrs \cup DieHighAttrs \cup DieNameAttrs] :
        /\ \E i \in 1 .. 3 : d[i] \in DieLowAttrs
        /\ \E i \in 1 .. 3 : d[i] \in DieHighAttrs
        /\ \E i \in 1 .. 3 : d[i] \in DieNameAttrs}

\* let mut low_pc = 0; let mut high_pc = 0; let mut high_offset = None;
AccInit == [low_pc |-> 0, high_pc |-> 0, high_offset |-> NoAddr]

\* Variant: an offset is added to low_pc as soon as the attribute is read.
on_high_pc_eager(a, attr) ==
    IF attr.form = "Udata" THEN [a EXCEPT !.high_pc = a.low_pc + attr.v - 1]
    ELSE IF attr.form = "Addr" THEN [a EXCEPT !.high_pc = attr.v]
    ELSE a

\* The DW_AT_high_pc arm of the attribute loop.
on_high_pc(a, attr) ==
    IF attr.form = "Udata" THEN [a EXCEPT !.high_offset = attr.v]
    ELSE IF attr.form = "Addr" THEN [a EXCEPT !.high_pc = attr.v]
    ELSE a

\* The attribute loop from attribute i on.
RECURSIVE process_attrs(_, _, _)
process_attrs(d, i, a) ==
    IF i > Len(d) THEN a
    ELSE process_attrs(d, i + 1,
            CASE d[i].name = "DW_AT_high_pc" -> on_high_pc(a, d[i])
              [] d[i].name = "DW_AT_low_pc" ->
                    IF d[i].form = "Addr" THEN [a EXCEPT !.low_pc = d[i].v] ELSE a
              [] OTHER -> a)

\* The address_range of the Function that process_subprogram returns.
process_subprogram(d) ==
    LET a == process_attrs(d, 1, AccInit)
        high_pc == IF a.high_offset # NoAddr
                   THEN a.low_pc + a.high_offset - 1
                   ELSE a.high_pc
    IN <<a.low_pc, high_pc>>

ProcessSubprogram ==
    /\ UNCHANGED <<tvars, gvars, hvars, dvars, svars, zvars>>
    /\ fn_out = <<>>
    /\ fn_out' = process_subprogram(die)
    /\ UNCHANGED die

DieInit ==
    /\ die \in DieInputs
    /\ fn_out = <<>>
    /\ prog = [a \in Addr |-> INT3]
    /\ mem = prog
    /\ rip = NoAddr
    /\ run = "absent"
    /\ pending = "none"
    /\ cause = [kind |-> "none", addr |-> NoAddr]
    /\ breakpoints = [a \in {} |-> Breakpoint(a, 0, 0, FALSE)]
    /\ next_bp_num = 0
    /\ op = OpNone
    /\ rt = RtNone
    /\ ptrace_failed = FALSE
    /\ n_created = 0
    /\ DbgInit
    /\ ZIdle
    /\ BtIdle

DieNext == ProcessSubprogram

DieSpec == DieInit /\ [][DieNext]_vars

(***************************************************************************)
(* GimliWrapper::collect_info over the compilation units of a file, the    *)
(* DIEs of each in the order next_dfs gives them.  The offset of a DIE is  *)
(* its position in its unit (entry.offset() is relative to the unit).      *)
(***************************************************************************)
UnitLen == 3         \* DIEs in the file, below the unit DIEs

\* No child and no Target.
TargetAbsent ==
    /\ prog = [a \in Addr |-> INT3]
    /\ mem = prog
    /\ rip = NoAddr
    /\ run = "absent"
    /\ pending = "none"
    /\ cause = [kind |-> "none", addr |-> NoAddr]
    /\ breakpoints = [a \in {} |-> Breakpoint(a, 0, 0, FALSE)]
    /\ next_bp_num = 0
    /\ op = OpNone
    /\ rt = RtNone
    /\ ptrace_failed = FALSE
    /\ n_created = 0

TypeTags == {"DW_TAG_base_type", "DW_TAG_pointer_type", "DW_TAG_const_type",
             "DW_TAG_structure_type"}
DieTags == TypeTags \cup {"DW_TAG_subprogram", "DW_TAG_formal_parameter",
                          "DW_TAG_variable"}

\* A DW_AT_type that refers to the DIE at some offset of the unit, or none.
TypeRefAttrs == {<<>>} \cup {<<Attr("DW_AT_type", "UnitRef", o)>> : o \in 1 .. UnitLen}

DieAttrs(tag) ==
    CASE tag = "DW_TAG_base_type" -> {<<Attr("DW_AT_byte_size", "Udata", 4)>>}
      [] tag = "DW_TAG_pointer_type" ->
            {<<Attr("DW_AT_byte_size", "Udata", 8)>> \o t : t \in TypeRefAttrs}
      [] tag \in {"DW_TAG_const_type", "DW_TAG_formal_parameter", "DW_TAG_variable"} ->
            TypeRefAttrs
      [] OTHER -> {<<>>}

Entries == UNION {{[tag |-> tag, attrs |-> a] : a \in DieAttrs(tag)} : tag \in DieTags}

\* The depths next_dfs reports for n DIEs below the unit DIE.
Depths(n) ==
    {d \in [1 .. n -> 1 .. n] : d[1] = 1 /\ \A i \in 2 .. n : d[i] <= d[i - 1] + 1}

\* The units of n DIEs: every DW_AT_type refers to a type DIE of the unit,
\* and only a subprogram or a structure has children.
Units(n) ==
    {[i \in 1 .. n |-> [tag |-> p[1][i].tag, attrs |-> p[1][i].attrs, depth |-> p[2][i]]] :
        p \in {p \in [1 .. n -> Entries] \X Depths(n) :
                 /\ \A i \in 1 .. n : \A k \in DOMAIN p[1][i].attrs :
                        p[1][i].attrs[k].name = "DW_AT_type" =>
                            /\ p[1][i].attrs[k].v <= n
                            /\ p[1][p[1][i].attrs[k].v].tag \in TypeTags
                 /\ \A i \in 2 .. n :
                        p[2][i] = p[2][i - 1] + 1 =>
                            p[1][i - 1].tag \in {"DW_TAG_subprogram",
                                                 "DW_TAG_structure_type"}}}

\* The DW_AT_name of the parameter or variable DIE at offset i of unit k:
\* each has a name of its own (the number stands for the string).
VarName(k, i) == 10 * k + i

Named(u, k) ==
    [i \in DOMAIN u |->
        IF u[i].tag \in {"DW_TAG_formal_parameter", "DW_TAG_variable"}
        THEN [u[i] EXCEPT !.attrs = <<Attr("DW_AT_name", "String", VarName(k, i))>> \o @]
        ELSE u[i]]

\* The files of len DIEs: one unit that holds them all, or two units that
\* share them.
Files(len) ==
    {<<Named(u, 1)>> : u \in Units(len)}
    \cup UNION {{<<Named(u1, 1), Named(u2, 2)>> :
                    u1 \in Units(n), u2 \in Units(len - n)} : n \in 1 .. (len - 1)}

\* The attribute loop for one attribute: the value of its last occurrence in
\* the expected form, or the initial value.
RECURSIVE attr_value(_, _, _, _, _)
attr_value(attrs, i, name, form, initial) ==
    IF i > Len(attrs) THEN initial
    ELSE attr_value(attrs, i + 1, name, form,
                    IF attrs[i].name = name /\ attrs[i].form = form
                    THEN attrs[i].v ELSE initial)

process_base_type(entry, offset) ==
    [kind |-> "Base",
     byte_size |-> attr_value(entry.attrs, 1, "DW_AT_byte_size", "Udata", 0),
     ref_addr |-> offset]

process_pointer_type(entry, offset) ==
    [kind |-> "Pointer",
     byte_size |-> attr_value(entry.attrs, 1, "DW_AT_byte_size", "Udata", 0),
     to |-> attr_value(entry.attrs, 1, "DW_AT_type", "UnitRef", 0),
     ref_addr |-> offset]

process_const_type(entry, offset) ==
    [kind |-> "Const",
     byte_size |-> attr_value(entry.attrs, 1, "DW_AT_byte_size", "Udata", 0),
     to |-> attr_value(entry.attrs, 1, "DW_AT_type", "UnitRef", 0),
     ref_addr |-> offset]

\* gimli::Operation::parse on the bytes of an expression: its first
\* operation, or an error when there is none or its opcode is not known.
\* Variant: the last operation of the expression is returned.
Operation_parse_last(es) ==
    IF es = <<>> \/ es[Len(es)].op = "unknown"
    THEN [ok |-> FALSE, op |-> "none", offset |-> 0]
    ELSE [ok |-> TRUE, op |-> es[Len(es)].op, offset |-> es[Len(es)].v]

Operation_parse(es) ==
    IF es = <<>> \/ es[1].op = "unknown"
    THEN [ok |-> FALSE, op |-> "none", offset |-> 0]
    ELSE [ok |-> TRUE, op |-> es[1].op, offset |-> es[1].v]

\* The DW_AT_location arm of the attribute loop: fbreg_offset is assigned
\* only for an Exprloc whose first operation parses as FrameOffset
\* (DW_OP_fbreg); every other case prints a message.
RECURSIVE location_fbreg_offset(_, _, _)
location_fbreg_offset(attrs, i, fbreg_offset) ==
    IF i > Len(attrs) THEN fbreg_offset
    ELSE location_fbreg_offset(attrs, i + 1,
            IF attrs[i].name = "DW_AT_location" /\ attrs[i].form = "Exprloc"
            THEN LET r == Operation_parse(attrs[i].v)
                 IN IF r.ok /\ r.op = "DW_OP_fbreg" THEN r.offset ELSE fbreg_offset
            ELSE fbreg_offset)

process_formal_parameter(entry) ==
    [name |-> attr_value(entry.attrs, 1, "DW_AT_name", "String", ""),
     t |-> attr_value(entry.attrs, 1, "DW_AT_type", "UnitRef", 0),
     fbreg_offset |-> location_fbreg_offset(entry.attrs, 1, 0)]

process_variable(entry) ==
    [name |-> attr_value(entry.attrs, 1, "DW_AT_name", "String", ""),
     t |-> attr_value(entry.attrs, 1, "DW_AT_type", "UnitRef", 0),
     fbreg_offset |-> location_fbreg_offset(entry.attrs, 1, 0)]

\* 1) Read base types
RECURSIVE read_base_types(_, _, _)
read_base_types(u, i, vec) ==
    IF i > Len(u) THEN vec
    ELSE read_base_types(u, i + 1,
            IF u[i].tag = "DW_TAG_base_type"
            THEN Append(vec, process_base_type(u[i], i)) ELSE vec)

\* 2) Read pointer types
RECURSIVE read_pointer_types(_, _, _)
read_pointer_types(u, i, vec) ==
    IF i > Len(u) THEN vec
    ELSE read_pointer_types(u, i + 1,
            CASE u[i].tag = "DW_TAG_pointer_type" ->
                    Append(vec, process_pointer_type(u[i], i))
              [] u[i].tag = "DW_TAG_const_type" ->
                    Append(vec, process_const_type(u[i], i))
              [] OTHER -> vec)

\* 3) Read everything else: a parameter or variable goes to the last function.
RECURSIVE read_functions(_, _, _)
read_functions(u, i, fns) ==
    IF i > Len(u) THEN fns
    ELSE read_functions(u, i + 1,
            CASE u[i].tag = "DW_TAG_subprogram" ->
                    Append(fns, [address_range |-> process_subprogram(u[i].attrs),
                                 formal_parameters |-> <<>>,
                                 local_variables |-> <<>>])
              [] u[i].tag = "DW_TAG_formal_parameter" /\ fns # <<>> ->
                    [fns EXCEPT ![Len(fns)].formal_parameters =
                        Append(@, process_formal_parameter(u[i]))]
              [] u[i].tag = "DW_TAG_variable" /\ fns # <<>> ->
                    [fns EXCEPT ![Len(fns)].local_variables =
                        Append(@, process_variable(u[i]))]
              [] OTHER -> fns)

\* for typ in types { self.types.insert(ref_addr, typ); }
RECURSIVE insert_types(_, _, _)
insert_types(vec, i, map) ==
    IF i > Len(vec) THEN map
    ELSE insert_types(vec, i + 1,
            [o \in (DOMAIN map) \cup {vec[i].ref_addr} |->
                IF o = vec[i].ref_addr THEN vec[i] ELSE map[o]])

\* while let Some(header) = iter.next()? { .. }: unit k and those after it.
RECURSIVE collect_units(_, _, _)
collect_units(d, k, self) ==
    IF k > Len(d) THEN self
    ELSE collect_units(d, k + 1,
            [types |-> insert_types(
                          read_pointer_types(d[k], 1, read_base_types(d[k], 1, <<>>)),
                          1, self.types),
             functions |-> self.functions \o read_functions(d[k], 1, <<>>)])

\* GimliWrapper::get_type
get_type(map, t) ==
    IF t \in DOMAIN map THEN [some |-> TRUE, typ |-> map[t]]
    ELSE [some |-> FALSE, typ |-> [kind |-> "None"]]

\* GimliWrapper::get_type_byte_size over the types table.
types_byte_size(map, t) ==
    IF t \in DOMAIN map THEN [some |-> TRUE, byte_size |-> map[t].byte_size]
    ELSE [some |-> FALSE, byte_size |-> 0]

CollectInfo ==
    /\ UNCHANGED <<tvars, gvars, hvars, dvars, svars, pvars, cvars, mvars, fvars>>
    /\ ~collected
    /\ LET self == collect_units(dwarf, 1, [types |-> types, functions |-> functions])
       IN /\ types' = self.types
          /\ functions' = self.functions
    /\ collected' = TRUE
    /\ UNCHANGED dwarf

InfoInit ==
    /\ dwarf \in Files(UnitLen)
    /\ types = [o \in {} |-> 0]
    /\ functions = <<>>
    /\ collected = FALSE
    /\ TargetAbsent
    /\ DbgInit
    /\ BtIdle
    /\ DieIdle
    /\ ParseIdle
    /\ MemIdle
    /\ ForkIdle

InfoNext == CollectInfo

InfoSpec == InfoInit /\ [][InfoNext]_vars

(***************************************************************************)
(* The command parsers: get_command of replcommand.rs and                  *)
(* Debugger::get_command of debugger.rs.  A string is the sequence of its  *)
(* characters; the line read_line returns ends with its newline.           *)
(***************************************************************************)
MaxArgLen == 3       \* characters of a command's argument, after any 0x

NL == "\n"

\* The words the parsers compare with, as their characters.
Str ==
    [cont |-> <<"c", "o", "n", "t">>,
     c |-> <<"c">>,
     r |-> <<"r">>,
     start |-> <<"s", "t", "a", "r", "t">>,
     s |-> <<"s">>,
     regs |-> <<"r", "e", "g", "s">>,
     lsb |-> <<"l", "s", "b">>,
     back |-> <<"b", "a", "c", "k">>,
     frame |-> <<"f", "r", "a", "m", "e">>,
     f |-> <<"f">>,
     get |-> <<"g", "e", "t">>,
     exit |-> <<"e", "x", "i", "t">>,
     e |-> <<"e">>,
     b |-> <<"b">>,
     rb |-> <<"r", "b">>,
     bp |-> <<"b", "p">>,
     set |-> <<"s", "e", "t">>,
     del |-> <<"d", "e", "l">>,
     q |-> <<"q">>,
     zero_x |-> <<"0", "x">>]

\* The characters an argument is made of: hex-digit letters, a digit, and a
\* letter that is no hex digit.
ArgAlphabet == {"a", "d", "f", "1", "g"}
ArgPrefixes == {<<>>, <<"0", "x">>, <<"0", "X">>}
ArgBodies == UNION {[1 .. n -> ArgAlphabet] : n \in 1 .. MaxArgLen}
Args == {p \o x : p \in ArgPrefixes, x \in ArgBodies}

CommandWords == {Str.cont, Str.c, Str.r, Str.start, Str.s, Str.regs, Str.lsb,
                 Str.back, Str.frame, Str.f, Str.get, Str.exit, Str.e, Str.b,
                 Str.rb, Str.bp, Str.q}

\* The lines typed: an empty and a blank line, a word alone (also after a
\* blank), and the breakpoint commands with one argument or with none.
Lines ==
    {<<NL>>, <<" ", NL>>}
    \cup {w \o <<NL>> : w \in CommandWords}
    \cup {Str.bp \o <<" ">> \o k \o <<NL>> : k \in {Str.set, Str.del}}
    \cup {<<" ">> \o w \o <<NL>> : w \in CommandWords}
    \cup {h \o <<" ">> \o x \o <<NL>> : h \in {Str.b, Str.rb}, x \in Args}
    \cup {Str.bp \o <<" ">> \o k \o <<" ">> \o x \o <<NL>> :
            k \in {Str.set, Str.del}, x \in Args}

\* str::trim: leading and trailing white space removed.
IsSpace(c) == c \in {" ", NL, "\t", "\r"}

RECURSIVE trim_start(_)
trim_start(s) ==
    IF s # <<>> /\ IsSpace(Head(s)) THEN trim_start(Tail(s)) ELSE s

RECURSIVE trim_end(_)
trim_end(s) ==
    IF s # <<>> /\ IsSpace(s[Len(s)]) THEN trim_end(SubSeq(s, 1, Len(s) - 1)) ELSE s

trim(s) == trim_end(trim_start(s))

starts_with(s, p) == Len(s) >= Len(p) /\ SubSeq(s, 1, Len(p)) = p

\* str::split(' '): the pieces between the separators, empty pieces included.
RECURSIVE split_from(_, _, _, _)
split_from(s, i, piece, parts) ==
    IF i > Len(s) THEN Append(parts, piece)
    ELSE IF s[i] = " " THEN split_from(s, i + 1, <<>>, Append(parts, piece))
    ELSE split_from(s, i + 1, Append(piece, s[i]), parts)

split(s) == split_from(s, 1, <<>>, <<>>)

\* str::to_lowercase on the characters of the lines.
UpperCase == <<"A", "B", "C", "D", "E", "F", "X">>
LowerCase == <<"a", "b", "c", "d", "e", "f", "x">>
lower_char(c) ==
    IF \E i \in DOMAIN UpperCase : UpperCase[i] = c
    THEN LowerCase[CHOOSE i \in DOMAIN UpperCase : UpperCase[i] = c]
    ELSE c
to_lowercase(s) == [i \in DOMAIN s |-> lower_char(s[i])]

\* char::to_digit(16): the value of a hex digit, NoAddr for any other character.
HexDigits == <<"0", "1", "2", "3", "4", "5", "6", "7", "8", "9",
               "a", "b", "c", "d", "e", "f">>
to_digit(c) ==
    IF \E i \in DOMAIN HexDigits : HexDigits[i] = lower_char(c)
    THEN (CHOOSE i \in DOMAIN HexDigits : HexDigits[i] = lower_char(c)) - 1
    ELSE NoAddr

\* usize::from_str_radix(s, 16): an optional +, then one or more hex digits;
\* NoAddr stands for Err.
RECURSIVE digits_value(_, _, _)
digits_value(s, i, acc) ==
    IF i > Len(s) THEN acc
    ELSE IF to_digit(s[i]) = NoAddr THEN NoAddr
    ELSE digits_value(s, i + 1, acc * 16 + to_digit(s[i]))

from_str_radix(s) ==
    LET digits == IF s # <<>> /\ Head(s) = "+" THEN Tail(s) ELSE s
    IN IF digits = <<>> THEN NoAddr ELSE digits_value(digits, 1, 0)

\* parse_address (the same code in both files); NoAddr stands for None.
parse_address(addr) ==
    LET addr_without_0x == IF starts_with(to_lowercase(addr), Str.zero_x)
                           THEN SubSeq(addr, 3, Len(addr))
                           ELSE addr
    IN from_str_radix(addr_without_0x)

ReplCommand(c, a, n) == [cmd |-> c, addr |-> a, name |-> n]
Plain(c) == ReplCommand(c, NoAddr, <<>>)

\* get_command of replcommand.rs on the line read.
get_command(input) ==
    LET t == trim(input)
    IN CASE t = Str.cont -> Plain("Continue")
         [] t = Str.r -> Plain("Continue")
         [] t = Str.exit -> Plain("Exit")
         [] t = Str.e -> Plain("Exit")
         [] t = Str.regs -> Plain("GetRegs")
         [] t = Str.s -> Plain("SingleStep")
         [] t = Str.lsb -> Plain("ListBps")
         [] t = Str.back -> Plain("Backtrace")
         [] t = Str.frame -> Plain("Frame")
         [] t = Str.f -> Plain("Frame")
         [] t = Str.get -> Plain("GetVar")
         [] OTHER ->
              IF starts_with(input, Str.b)
              THEN LET parts == split(t)
                   IN IF Len(parts) = 2
                      THEN IF parse_address(parts[2]) # NoAddr
                           THEN ReplCommand("SetBp", parse_address(parts[2]), <<>>)
                           ELSE ReplCommand("SetBpName", NoAddr, parts[2])
                      ELSE Plain("Unknown")
              ELSE IF starts_with(input, Str.rb)
              THEN LET parts == split(t)
                   IN IF Len(parts) = 2
                      THEN IF parse_address(parts[2]) # NoAddr
                           THEN ReplCommand("DeleteBp", parse_address(parts[2]), <<>>)
                           ELSE Plain("Unknown")
                      ELSE Plain("Unknown")
              ELSE Plain("Unknown")

\* Debugger::get_command on the line read; "panic" is the failed expect.
dbg_get_command(input) ==
    LET t == trim(input)
    IN CASE t = Str.cont -> Plain("Continue")
         [] t = Str.c -> Plain("Continue")
         [] t = Str.start -> Plain("Start")
         [] t = Str.exit -> Plain("Exit")
         [] t = Str.e -> Plain("Exit")
         [] t = Str.regs -> Plain("GetRegs")
         [] t = Str.r -> Plain("GetRegs")
         [] t = Str.s -> Plain("SingleStep")
         [] OTHER ->
              IF starts_with(input, Str.bp)
              THEN LET parts == split(t)
                   IN IF Len(parts) < 3
                      THEN Plain("Unknown")
                      ELSE LET bp_type == IF parts[2] = Str.set THEN "SetBp"
                                          ELSE "DeleteBp"
                               parsed_addr == parse_address(parts[3])
                           IN IF parsed_addr = NoAddr THEN Plain("panic")
                              ELSE ReplCommand(bp_type, parsed_addr, <<>>)
              ELSE Plain("Unknown")

GetCommand ==
    /\ UNCHANGED <<tvars, gvars, hvars, dvars, svars, pvars, ivars, mvars, fvars>>
    /\ command.by = "none"
    /\ command' = [by |-> "replcommand", c |-> get_command(line)]
    /\ UNCHANGED line

DbgGetCommand ==
    /\ UNCHANGED <<tvars, gvars, hvars, dvars, svars, pvars, ivars, mvars, fvars>>
    /\ command.by = "none"
    /\ command' = [by |-> "debugger", c |-> dbg_get_command(line)]
    /\ UNCHANGED line

ParseInit ==
    /\ line \in Lines
    /\ command = [by |-> "none"]
    /\ TargetAbsent
    /\ DbgInit
    /\ BtIdle
    /\ DieIdle
    /\ InfoIdle
    /\ MemIdle
    /\ ForkIdle

ParseNext ==
    \/ GetCommand
    \/ DbgGetCommand

ParseSpec == ParseInit /\ [][ParseNext]_vars

(***************************************************************************)
(* Target::read_bytes and Target::write_byte called on a stopped child,    *)
(* one call per run.                                                       *)
(***************************************************************************)
MaxAmount == 3       \* bytes asked of read_bytes

\* The memories the child holds: the programs, and one whose bytes all differ.
MemImages == Programs \cup {[a \in Addr |-> (7 * a + 1) % 256]}

\* The addresses given: every mapped one and the first beyond.
MemAddrInputs == 0 .. MemSize
ByteInputs == {0, INT3, 255}

\* What read_bytes returns: the word is printed, the vector is empty.
read_bytes(m, addr, amount) ==
    LET aligned_addr == align_addr_to_word(addr)
    IN IF aligned_addr \notin Addr
       THEN [ok |-> FALSE, bytes |-> <<>>]
       ELSE [ok |-> TRUE, bytes |-> <<>>]

ReadBytes(addr, amount) ==
    /\ UNCHANGED <<gvars, hvars, dvars, svars, pvars, ivars, cvars, fvars>>
    /\ mcall.fn = "none"
    /\ LET r == read_bytes(mem, addr, amount)
       IN mcall' = [fn |-> "read_bytes", addr |-> addr, amount |-> amount,
                    ok |-> r.ok, bytes |-> r.bytes]
    /\ UNCHANGED tvars

WriteByte(addr, byte) ==
    /\ UNCHANGED <<gvars, hvars, dvars, svars, pvars, ivars, cvars, fvars>>
    /\ mcall.fn = "none"
    /\ LET w == write_byte(mem, addr, byte)
       IN /\ mem' = w.mem
          /\ mcall' = [fn |-> "write_byte", addr |-> addr, byte |-> byte,
                       ok |-> w.ok, old |-> w.old]
    /\ UNCHANGED <<prog, rip, run, pending, cause>>

MemInit ==
    /\ prog \in MemImages
    /\ mem = prog
    /\ rip = TextBase
    /\ run = "stopped"
    /\ pending = "none"
    /\ cause = [kind |-> "none", addr |-> NoAddr]
    /\ breakpoints = [a \in {} |-> Breakpoint(a, 0, 0, FALSE)]
    /\ next_bp_num = 0
    /\ op = OpNone
    /\ rt = RtNone
    /\ ptrace_failed = FALSE
    /\ n_created = 0
    /\ mcall = [fn |-> "none"]
    /\ DbgInit
    /\ BtIdle
    /\ DieIdle
    /\ InfoIdle
    /\ ParseIdle
    /\ ForkIdle

MemNext ==
    \/ \E addr \in MemAddrInputs, amount \in 0 .. MaxAmount : ReadBytes(addr, amount)
    \/ \E addr \in MemAddrInputs, byte \in ByteInputs : WriteByte(addr, byte)

MemSpec == MemInit /\ [][MemNext]_vars

(***************************************************************************)
(* Target::cont on a child whose mappings have changed (`ContSpec`): the   *)
(* child is stopped with breakpoints set earlier, some of them hit and     *)
(* waiting to be re-armed.  An entry at MemSize is one whose page the      *)
(* child has unmapped since the breakpoint was set (munmap, dlclose); the  *)
(* re-arming write to it fails.                                            *)
(***************************************************************************)
\* The maps of at most MaxBpNum entries, numbered in address order.
StoppedMaps(p) ==
    {[a \in sf[1] |-> Breakpoint(a, Cardinality({x \in sf[1] : x < a}),
                                 IF a \in Addr THEN p[a] ELSE 0, a \in sf[2])]
        : sf \in {sf \in (SUBSET AddrInputs) \X (SUBSET AddrInputs) :
                     sf[2] \subseteq sf[1] /\ Cardinality(sf[1]) <= MaxBpNum}}

ContInit ==
    /\ prog \in Programs
    /\ breakpoints \in StoppedMaps(prog)
    /\ mem = [a \in Addr |->
                IF a \in DOMAIN breakpoints /\ ~breakpoints[a].set_on_continue
                THEN INT3 ELSE prog[a]]
    /\ rip \in TextBase .. (TextBase + BpWindow)
    /\ run = "stopped"
    /\ pending = "none"
    /\ cause = [kind |-> "none", addr |-> NoAddr]
    /\ next_bp_num = Cardinality(DOMAIN breakpoints)
    /\ op = OpNone
    /\ rt = RtNone
    /\ ptrace_failed = FALSE
    /\ n_created = Cardinality(DOMAIN breakpoints)
    /\ DbgInit
    /\ ZIdle
    /\ BtIdle
    /\ DieIdle

ContNext ==
    \/ Cont
    \/ Wait
    \/ TraceeStep

ContSpec == ContInit /\ [][ContNext]_vars

(***************************************************************************)
(* The process in which fork() returns ForkResult::Child (`ForkSpec`):     *)
(* Target::fork_child with bootstrap_target_process, and                   *)
(* Debugger::start_child with run_child.  Every system call is one step;   *)
(* its result is fixed by the environment the child was forked in.         *)
(***************************************************************************)
\* The personality flags a process may have inherited.
Persona == {"ADDR_NO_RANDOMIZE", "READ_IMPLIES_EXEC"}

\* Which calls of the child succeed: ptrace(TRACEME), personality(query),
\* personality(set), execve, and the loading of the debug info of the target.
ForkEnvs == [traceme : BOOLEAN, get : BOOLEAN, set : BOOLEAN, execve : BOOLEAN,
             debug_info : BOOLEAN]

\* A panic unwinds out of main: the process exits; `at` is the statement.
Panicked(at) == [forked EXCEPT !.pc = "panicked", !.at = at]

\* ptrace::traceme().expect("traceme failed")
Traceme ==
    /\ UNCHANGED <<tvars, gvars, hvars, dvars, svars, pvars, ivars, cvars, mvars>>
    /\ forked.pc = "traceme"
    /\ forked' = IF forked.env.traceme
                 THEN [forked EXCEPT !.pc = "personality::get"]
                 ELSE Panicked("traceme")

\* let pers = personality::get().unwrap();
\* assert!(!pers.contains(Persona::ADDR_NO_RANDOMIZE));
PersonalityGet ==
    /\ UNCHANGED <<tvars, gvars, hvars, dvars, svars, pvars, ivars, cvars, mvars>>
    /\ forked.pc = "personality::get"
    /\ forked' = IF ~forked.env.get THEN Panicked("personality::get")
                 ELSE IF "ADDR_NO_RANDOMIZE" \in forked.pers THEN Panicked("assert")
                 ELSE [forked EXCEPT !.pc = "personality::set"]

\* personality::set(pers | Persona::ADDR_NO_RANDOMIZE): an error is printed.
PersonalitySet ==
    /\ UNCHANGED <<tvars, gvars, hvars, dvars, svars, pvars, ivars, cvars, mvars>>
    /\ forked.pc = "personality::set"
    /\ forked' = [forked EXCEPT
                    !.pc = "execve",
                    !.pers = IF forked.env.set THEN @ \cup {"ADDR_NO_RANDOMIZE"} ELSE @]

\* libc::execve / libc::execv: on success the image is replaced and the
\* call does not return; on failure it returns and the result is printed.
Execve ==
    /\ UNCHANGED <<tvars, gvars, hvars, dvars, svars, pvars, ivars, cvars, mvars>>
    /\ forked.pc = "execve"
    /\ forked' = [forked EXCEPT !.pc = IF forked.env.execve THEN "target" ELSE "returned"]

\* bootstrap_target_process / run_child return to the code after the fork:
\* fork_child returns Ok(Pid::from_raw(0)) into Target::create, start_child
\* goes on to its wait().
ReturnFromChild ==
    /\ UNCHANGED <<tvars, gvars, hvars, dvars, svars, pvars, ivars, cvars, mvars>>
    /\ forked.pc = "returned"
    /\ forked' = [forked EXCEPT !.pc = IF forked.front = "Target"
                                       THEN "DebugInfo::create" ELSE "wait"]

\* Target::create in the child: DebugInfo::create(target) unwraps the opening
\* and parsing of the file.
ChildDebugInfoCreate ==
    /\ UNCHANGED <<tvars, gvars, hvars, dvars, svars, pvars, ivars, cvars, mvars>>
    /\ forked.pc = "DebugInfo::create"
    /\ forked' = IF forked.env.debug_info
                 THEN [forked EXCEPT !.pc = "get_base_address"]
                 ELSE Panicked("DebugInfo::create")

\* Target::create in the child: get_base_address(Pid 0) cannot open
\* /proc/0/maps and panics on its expect.
ChildGetBaseAddress ==
    /\ UNCHANGED <<tvars, gvars, hvars, dvars, svars, pvars, ivars, cvars, mvars>>
    /\ forked.pc = "get_base_address"
    /\ forked' = Panicked("get_base_address")

\* Debugger::start_child in the child: wait().expect(..) with no child of
\* its own (ECHILD).
ChildWait ==
    /\ UNCHANGED <<tvars, gvars, hvars, dvars, svars, pvars, ivars, cvars, mvars>>
    /\ forked.pc = "wait"
    /\ forked' = Panicked("wait")

\* fork() has returned in the child.
ForkInit ==
    /\ forked \in [front : {"Target", "Debugger"}, pc : {"traceme"}, at : {"none"},
                   pers : SUBSET Persona, env : ForkEnvs]
    /\ TargetAbsent
    /\ DbgInit
    /\ BtIdle
    /\ DieIdle
    /\ InfoIdle
    /\ ParseIdle
    /\ MemIdle

ForkNext ==
    \/ Traceme
    \/ PersonalityGet
    \/ PersonalitySet
    \/ Execve
    \/ ReturnFromChild
    \/ ChildDebugInfoCreate
    \/ ChildGetBaseAddress
    \/ ChildWait

ForkSpec == ForkInit /\ [][ForkNext]_vars

(***************************************************************************)
(* GimliWrapper::process_variable and process_formal_parameter over one    *)
(* DIE (`VarSpec`): the DIE carries at most one attribute of each name.    *)
(***************************************************************************)
MaxExprLen == 2      \* operations in a location expression

\* The operations of a location expression: DW_OP_fbreg with its signed
\* operand, other operations with an operand, and an opcode gimli rejects.
LocOps ==
    {[op |-> "DW_OP_fbreg", v |-> o] : o \in {0 - 20, 0, 16}}
    \cup {[op |-> "DW_OP_addr", v |-> 64], [op |-> "DW_OP_breg6", v |-> 0 - 8],
          [op |-> "DW_OP_call_frame_cfa", v |-> 0], [op |-> "unknown", v |-> 0]}

LocExprs == UNION {[1 .. n -> LocOps] : n \in 0 .. MaxExprLen}

\* No location, an expression, or a reference to a location list (the
\* value of the reference is not looked at).
LocAttrs ==
    {<<>>} \cup {<<Attr("DW_AT_location", "Exprloc", e)>> : e \in LocExprs}
    \cup {<<Attr("DW_AT_location", "LocationListsRef", <<>>)>>,
          <<Attr("DW_AT_location", "SecOffset", <<>>)>>}

VarNameAttrs == {<<>>, <<Attr("DW_AT_name", "String", "x")>>}
VarTypeAttrs == {<<>>, <<Attr("DW_AT_type", "UnitRef", 1)>>}

ProcessVariable ==
    /\ UNCHANGED <<tvars, gvars, hvars, dvars, svars, zvars>>
    /\ fn_out = <<>>
    /\ fn_out' = <<"process_variable", process_variable([attrs |-> die])>>
    /\ UNCHANGED die

ProcessFormalParameter ==
    /\ UNCHANGED <<tvars, gvars, hvars, dvars, svars, zvars>>
    /\ fn_out = <<>>
    /\ fn_out' = <<"process_formal_parameter",
                   process_formal_parameter([attrs |-> die])>>
    /\ UNCHANGED die

VarInit ==
    /\ \E n \in VarNameAttrs, t \in VarTypeAttrs, l \in LocAttrs : die = n \o t \o l
    /\ fn_out = <<>>
    /\ TargetAbsent
    /\ DbgInit
    /\ BtIdle
    /\ ZIdle

VarNext ==
    \/ ProcessVariable
    \/ ProcessFormalParameter

VarSpec == VarInit /\ [][VarNext]_vars

(***************************************************************************)
(* Target::print_backtrace on any stopped child (`WalkSpec`): the stack    *)
(* holds whatever the child has written there.  Every frame slot holds a   *)
(* saved rbp and a return address of the child's choosing.                 *)
(***************************************************************************)
\* The addresses at which a frame record (saved rbp, return address) lies.
FrameSlots == {2 * WORD * j : j \in 1 .. (MaxFrames - 1)}

\* A return address inside main, and the one into libc.
RetAddrs == {BaseAddress + FnLowPc["main"] + Prologue + 5, LibcRet}

\* The stack in which the slot at s holds saved[s] and ret[s].
RECURSIVE StackOf(_, _, _, _)
StackOf(m, slots, saved, ret) ==
    IF slots = {} THEN m
    ELSE LET s == CHOOSE s \in slots : TRUE
         IN StackOf(WriteBytes(WriteBytes(m, s, WordSeq(EncodeWord(saved[s]))),
                               s + WORD, WordSeq(EncodeWord(ret[s]))),
                    slots \ {s}, saved, ret)

WalkInit ==
    /\ sprog = [callee |-> [main |-> "a", b |-> "none", a |-> "none"], xsize |-> 4,
                xval |-> <<42, 0, 0, 0>>]
    /\ \E saved \in [FrameSlots -> FrameSlots \cup {0}], ret \in [FrameSlots -> RetAddrs] :
          smem = StackOf([a \in SAddr |-> 0], FrameSlots, saved, ret)
    /\ regs \in [rip : {BaseAddress + FnLowPc["a"] + Prologue, LibcRet},
                 rsp : {0}, rbp : FrameSlots \cup {0}]
    /\ calls = <<>>
    /\ bt = BtNone
    /\ cfa = NoAddr
    /\ TargetAbsent
    /\ DbgInit
    /\ ZIdle
    /\ DieIdle

WalkNext == PrintBacktraceFrames

WalkSpec == WalkInit /\ [][WalkNext]_vars

(***************************************************************************)
(*                              Properties                                 *)
(***************************************************************************)
Flag(a) == breakpoints[a].set_on_continue
Orig(a) == breakpoints[a].original_byte

\* C1, as stated: while no ptrace call has failed, for every entry the byte
\* at its address is 0xCC iff set_on_continue is false, and is original_byte
\* iff set_on_continue is true.
C1_I1_Iff ==
    ~ptrace_failed =>
        \A a \in DOMAIN breakpoints :
            /\ (mem[a] = INT3) <=> ~Flag(a)
            /\ (mem[a] = Orig(a)) <=> Flag(a)

\* C1, amended: while no ptrace call has failed, for every entry the byte at
\* its address is 0xCC if set_on_continue is false and original_byte if it is
\* true (the converses hold for an entry whose original_byte is not 0xCC).
C1_I1 ==
    ~ptrace_failed =>
        \A a \in DOMAIN breakpoints :
            /\ ~Flag(a) => mem[a] = INT3
            /\ Flag(a) => mem[a] = Orig(a)
            /\ Orig(a) # INT3 =>
                  /\ (mem[a] = INT3) <=> ~Flag(a)
                  /\ (mem[a] = Orig(a)) <=> Flag(a)

\* A breakpoint that was hit (original byte back in memory) beside an armed one.
C1_Witness ==
    /\ ~ptrace_failed
    /\ \E a, b \in DOMAIN breakpoints :
          /\ Flag(a) /\ Orig(a) # INT3 /\ mem[a] = Orig(a)
          /\ ~Flag(b) /\ mem[b] = INT3 /\ Orig(b) # INT3
    /\ op.name = "wait"

\* wait has just reported the hit of the breakpoint at a.
HitReported(a) ==
    /\ op.name = "wait" /\ op.status = "SIGTRAP" /\ op.hit = a
    /\ cause = [kind |-> "int3", addr |-> a]

\* C2: when wait has reported the hit at a and cont follows, cont executes
\* exactly one instruction from a (the step-over), leaves rip off a, reports
\* no stop, and issues PTRACE_CONT with 0xCC at a and set_on_continue false.
C2_StepOverOnce ==
    [][\A a \in Addr :
          (HitReported(a) /\ op'.name = "cont") =>
              /\ op'.stepped /\ op'.exec_addr = a
              /\ rip' # a
              /\ run' = "cont" /\ pending' = "none"
              /\ mem'[a] = INT3
              /\ ~breakpoints'[a].set_on_continue]_vars

\* C3: the instruction the step-over of cont executes at a breakpoint's
\* address is the original one: the byte there is original_byte at that moment.
C3_OriginalExecuted ==
    (op.name = "cont" /\ op.stepped /\ op.exec_addr \in DOMAIN breakpoints) =>
        op.exec_byte = Orig(op.exec_addr)

\* C4: when wait returns Stopped(SIGTRAP) for the int3 of a breakpoint at a,
\* rip is a (not a + 1).
C4_RipAtBreakpoint ==
    (/\ op.name = "wait" /\ op.status = "SIGTRAP"
     /\ cause.kind = "int3" /\ cause.addr \in DOMAIN breakpoints) =>
        rip = cause.addr

C4_Witness ==
    /\ op.name = "wait" /\ op.status = "SIGTRAP"
    /\ cause.kind = "int3" /\ cause.addr \in DOMAIN breakpoints
    /\ Orig(cause.addr) # INT3
    /\ rip = cause.addr

\* C5: set_breakpoint on an address that has an entry succeeds and changes
\* neither the entries, nor the child's memory, nor next_bp_num.
C5_SetExisting ==
    [][(op'.name = "set_breakpoint" /\ op'.addr \in DOMAIN breakpoints) =>
          /\ op'.ok
          /\ breakpoints' = breakpoints
          /\ mem' = mem
          /\ next_bp_num' = next_bp_num]_vars

\* set_breakpoint has run on the address of a breakpoint that was hit.
C5_Witness ==
    /\ op.name = "set_breakpoint" /\ op.ok /\ ~op.created
    /\ op.addr \in DOMAIN breakpoints
    /\ Flag(op.addr)
    /\ next_bp_num < MaxBpNum

C7_ArmedAtCont ==
    (op.name = "cont" /\ op.ok) =>
        \A a \in DOMAIN breakpoints : ~Flag(a) /\ mem[a] = INT3

\* cont stepped over a hit breakpoint while a second entry exists.
C7_Witness ==
    /\ op.name = "cont" /\ op.ok /\ op.stepped
    /\ Cardinality(DOMAIN breakpoints) = 2
    /\ run = "cont"

\* The entries of S survive the step with flag and patched byte unchanged.
Kept(S) ==
    \A a \in S :
        /\ a \in DOMAIN breakpoints'
        /\ breakpoints'[a].set_on_continue = breakpoints[a].set_on_continue
        /\ mem'[a] = mem[a]

\* C8: set_on_continue goes false -> true only in wait on a SIGTRAP stop and
\* true -> false only in cont; set_breakpoint, delete_breakpoint of another
\* address, step, print_registers and print_backtrace change neither the flag
\* nor the patched byte of an existing entry.
C8_FlagTransitions ==
    [][/\ \A a \in (DOMAIN breakpoints) \cap (DOMAIN breakpoints') :
            /\ (~Flag(a) /\ breakpoints'[a].set_on_continue) =>
                  (op'.name = "wait" /\ op'.status = "SIGTRAP")
            /\ (Flag(a) /\ ~breakpoints'[a].set_on_continue) =>
                  op'.name = "cont"
       /\ op'.name = "set_breakpoint" => Kept(DOMAIN breakpoints)
       /\ op'.name = "delete_breakpoint" =>
              Kept((DOMAIN breakpoints) \ {op'.addr})
       /\ op'.name \in {"step", "print_registers", "print_backtrace"} =>
              Kept(DOMAIN breakpoints)
      ]_vars

\* A breakpoint was created in the word of another one that is hit and
\* lifted.
C8_Witness ==
    /\ op.name = "set_breakpoint" /\ op.created
    /\ \E a \in DOMAIN breakpoints :
          /\ a # op.addr
          /\ align_addr_to_word(a) = align_addr_to_word(op.addr)
          /\ Flag(a) /\ Orig(a) # INT3 /\ mem[a] = Orig(a)

\* C9: once DeleteBp has restored the byte of an existing breakpoint at a, the
\* byte at a is the program's original byte until a breakpoint is set at a
\* again, across every later Continue, SingleStep and wait.
\* (Stated for the addresses whose restore info is the program's byte, which
\* is every address that SetBp named once.)
C9_DeletedStaysRestored ==
    \A a \in deleted :
        breakpoint_restore_info[a] = prog[a] => mem[a] = prog[a]

\* C10: whenever run_repl is about to read a command and holds a child, the
\* child is stopped and no stop of it waits to be reaped.
C10_StoppedAtDispatch ==
    (repl = "read" /\ child_pid = "Some") => (run = "stopped" /\ pending = "none")

\* C11: once a Continue command has been read, the session has created a
\* child, also when no Start came before it.
C11_ContinueCreatesChild ==
    cmd = "Continue" => run # "absent"

\* C12: at every point of a session at most one forked child is alive.
C12_AtMostOneChild ==
    children <= 1

\* C13: a wait that reports Exited leaves the session without a child and
\* reading commands; Exit ends the loop, with one PTRACE_KILL on the child when
\* the session holds one and with none when it holds none.
C13_ExitedThenExit ==
    [][ /\ (repl = "wait" /\ pending = "Exited" /\ repl' # "wait")
            => (child_pid' = "None" /\ repl' = "read")
        /\ (repl = "read" /\ repl' = "done")
            => IF child_pid = "Some"
               THEN run # "killed" /\ run' = "killed"
               ELSE run' = run /\ run' # "killed" ]_vars

C13_Witness ==
    repl = "done" /\ child_pid = "None" /\ run = "exited"

\* C14: no command terminates the debugger: the command loop never ends in a
\* panic, whatever the session state and whichever ptrace call fails.
C14_HandlerReturns ==
    repl # "panic"

\* C15: a wait that observes a status other than SIGTRAP returns that status
\* and changes no register, no memory and no breakpoint entry; after SIGSEGV
\* the child is still stopped and open to further requests.
C15_OtherStatusUntouched ==
    [][ (pending \notin {"none", "SIGTRAP"} /\ pending' = "none" /\ op'.name = "wait")
        => /\ op'.status = pending
           /\ UNCHANGED <<rip, mem, breakpoints, run>>
           /\ (pending = "SIGSEGV" => (run' = "stopped" /\ Attached')) ]_vars

C15_Witness ==
    /\ op.name = "wait" /\ op.status = "SIGSEGV"
    /\ run = "stopped"
    /\ DOMAIN breakpoints # {}

\* C16: creation has consumed the stop after execve, so no wait of the caller
\* ever reports that stop.
C16_WaitNeverReportsExecStop ==
    ~(op.name = "wait" /\ cause.kind = "exec")

\* The functions whose calls are active, innermost first.
ActiveCalls == [i \in 1 .. Len(calls) |-> calls[Len(calls) + 1 - i].fn]

FrameNames(frames) == [i \in 1 .. Len(frames) |-> frames[i].fn]

\* The child is stopped on the first instruction of the function it just entered.
AtEntry == regs.rip = BaseAddress + FnLowPc[calls[Len(calls)].fn]

\* C17: a backtrace taken at the entry address of a called function prints one
\* frame per active call, innermost first, the immediate caller included.
C17_BacktraceAtEntry ==
    (bt.valid /\ Len(calls) >= 2 /\ AtEntry) => FrameNames(bt.frames) = ActiveCalls

\* word mod 2^(8 * byte_size) for sizes below 8, the whole word from 8 on.
LowBytes(w, byte_size) ==
    [i \in 0 .. (WORD - 1) |-> IF byte_size >= WORD \/ i < byte_size THEN w[i] ELSE 0]

\* C18: every value a backtrace shows for a variable of a frame with frame
\* pointer rbp is the word at rbp + 16 + fbreg_offset reduced to the low
\* byte_size bytes of the variable's type.
C18_LocalMasked ==
    bt.valid =>
        \A k \in 1 .. Len(bt.frames) :
            \A j \in 1 .. Len(bt.frames[k].vals) :
                LET v == bt.frames[k].vals[j]
                    word == ReadWord(smem, bt.frames[k].rbp + 16 + v.off)
                IN (word.ok /\ v.size >= 1) => v.val = LowBytes(word.w, v.size)

\* A 4-byte int holding 42 is shown as 0x2a although the upper four bytes of
\* the word read are not zero.
C18_Witness ==
    /\ bt.valid
    /\ \E k \in 1 .. Len(bt.frames) :
          \E j \in 1 .. Len(bt.frames[k].vals) :
            LET v == bt.frames[k].vals[j]
                word == ReadWord(smem, bt.frames[k].rbp + 16 + v.off)
            IN /\ v.size = 4 /\ word.ok
               /\ v.val = EncodeWord(42)
               /\ word.w[4] # 0

\* The prologue of the function entered last has run and its pop rbp has not.
InBody ==
    LET low == BaseAddress + FnLowPc[calls[Len(calls)].fn]
    IN Len(calls) >= 1 /\ regs.rip >= low + Prologue /\ regs.rip <= low + EpilogueAt

AttrOf(d, name) == d[CHOOSE i \in 1 .. Len(d) : d[i].name = name]

\* C20: whatever the order of DW_AT_low_pc and DW_AT_high_pc in the DIE, a
\* high_pc given as an offset n is stored as low_pc + n - 1, one given as an
\* address is stored as it is, and the low end is low_pc.
C20_HighPcStored ==
    fn_out # <<>> =>
        LET low == AttrOf(die, "DW_AT_low_pc")
            high == AttrOf(die, "DW_AT_high_pc")
        IN /\ fn_out[1] = low.v
           /\ high.form = "Udata" => fn_out[2] = low.v + high.v - 1
           /\ high.form = "Addr" => fn_out[2] = high.v

\* A DIE whose high_pc offset comes before its low_pc has been parsed.
C20_Witness ==
    /\ fn_out # <<>>
    /\ \E i, j \in 1 .. Len(die) :
          /\ i < j
          /\ die[i].name = "DW_AT_high_pc" /\ die[i].form = "Udata" /\ die[i].v >= 1
          /\ die[j].name = "DW_AT_low_pc"

\* C21: once collect_info has returned, the type reference t of every
\* collected formal parameter and local variable is a key of types, and the
\* `to` of every Pointer and Const type is 0 or a key of types.
C21_RefsResolve ==
    collected =>
        /\ \A i \in DOMAIN functions :
              /\ \A k \in DOMAIN functions[i].formal_parameters :
                    functions[i].formal_parameters[k].t \in DOMAIN types
              /\ \A k \in DOMAIN functions[i].local_variables :
                    functions[i].local_variables[k].t \in DOMAIN types
        /\ \A o \in DOMAIN types :
              types[o].kind \in {"Pointer", "Const"} =>
                  (types[o].to = 0 \/ types[o].to \in DOMAIN types)

\* The argument X of a breakpoint command, and the forms of the command table.
IsPrefixedHex(x) ==
    /\ starts_with(x, Str.zero_x)
    /\ Len(x) > 2
    /\ \A i \in 3 .. Len(x) : to_digit(x[i]) # NoAddr

IsIdentifier(x) == x # <<>> /\ x[1] \in {"a", "d", "f", "g"}

TypedWords == split(SubSeq(line, 1, Len(line) - 1))

\* The commands the command table states for the line typed; every command
\* for a line that is not a form of the table.
TableCommands ==
    LET w == TypedWords
    IN IF Len(w) = 1
       THEN CASE w[1] \in {Str.cont, Str.c, Str.r} -> {"Continue"}
              [] w[1] = Str.start -> {"Start"}
              [] w[1] = Str.s -> {"SingleStep"}
              [] w[1] = Str.regs -> {"GetRegs"}
              [] w[1] = Str.lsb -> {"ListBps"}
              [] w[1] = Str.back -> {"Backtrace"}
              [] w[1] \in {Str.frame, Str.f} -> {"Frame"}
              [] w[1] = Str.get -> {"GetVar"}
              [] w[1] \in {Str.exit, Str.e} -> {"Exit"}
              [] OTHER -> {command.c.cmd}
       ELSE IF w = <<Str.b, w[2]>> \/ w = <<Str.bp, Str.set, w[Len(w)]>>
       THEN IF IsPrefixedHex(w[Len(w)]) \/ IsIdentifier(w[Len(w)])
            THEN {"SetBp", "SetBpName"} ELSE {command.c.cmd}
       ELSE IF w = <<Str.rb, w[2]>> \/ w = <<Str.bp, Str.del, w[Len(w)]>>
       THEN IF IsPrefixedHex(w[Len(w)]) THEN {"DeleteBp"} ELSE {command.c.cmd}
       ELSE {command.c.cmd}

\* C22: the command a parser returns for a line that is a form of the command
\* table is the command the table states for that form.
C22_TableParsed ==
    command.by # "none" => command.c.cmd \in TableCommands

\* C23: get_command of replcommand.rs takes the X of `b X` as an address only
\* when X is 0x-prefixed hex, and as a function name (SetBpName) whenever X is
\* a bare identifier.
C23_BareIsName ==
    (command.by = "replcommand" /\ Len(TypedWords) = 2 /\ TypedWords[1] = Str.b) =>
        /\ command.c.cmd = "SetBp" => IsPrefixedHex(TypedWords[2])
        /\ IsIdentifier(TypedWords[2]) =>
              command.c = ReplCommand("SetBpName", NoAddr, TypedWords[2])

\* C24: a read_bytes(a, n) that succeeds returns exactly n bytes, the i-th
\* of them the byte of the child's memory at a + i.
C24_ReadBytesExact ==
    (mcall.fn = "read_bytes" /\ mcall.ok) =>
        /\ Len(mcall.bytes) = mcall.amount
        /\ \A i \in 0 .. (mcall.amount - 1) :
              (mcall.addr + i) \in Addr => mcall.bytes[i + 1] = mem[mcall.addr + i]

\* C27: write_byte(a, b) sets the byte at a to b, returns the byte that was
\* there, and leaves every other byte of memory as it was; when the peek of
\* the word fails nothing is written.
C27_WriteByteFrame ==
    mcall.fn = "write_byte" =>
        IF mcall.ok
        THEN /\ mcall.addr \in Addr
             /\ mem[mcall.addr] = mcall.byte
             /\ mcall.old = prog[mcall.addr]
             /\ \A a \in Addr \ {mcall.addr} : mem[a] = prog[a]
        ELSE mem = prog

\* A byte was changed in the middle of a word whose other bytes are not all 0.
C27_Witness ==
    /\ mcall.fn = "write_byte"
    /\ mcall.ok
    /\ mcall.addr % WORD \notin {0, WORD - 1}
    /\ mem[mcall.addr] # prog[mcall.addr]
    /\ prog[mcall.addr] # 0
    /\ \A a \in Addr : align_addr_to_word(a) = align_addr_to_word(mcall.addr)
                          => prog[a] # 0

\* C25: the idx values are dense: the k-th breakpoint set_breakpoint creates
\* has idx k - 1, so every idx in the map is below the number of breakpoints
\* created so far and next_bp_num is that number, whatever calls failed or
\* found an existing entry in between.
C25_IdxDense ==
    /\ next_bp_num = n_created
    /\ \A a \in DOMAIN breakpoints : breakpoints[a].idx < n_created

\* C26: a cont that re-arms its breakpoints performs the step-over exactly if
\* one of the re-armed addresses is the current rip, for every number of
\* flagged entries and every iteration order of the map.
C26_StepOverIffAtRip ==
    [][(op'.name = "cont" /\ run = "stopped" /\ run' # "stopped") =>
          (op'.stepped <=> rip \in Flagged(breakpoints))]_vars

\* C28: delete_breakpoint(addr) with no breakpoint at addr returns success
\* and changes nothing: no memory write, no entry removed or altered,
\* next_bp_num as it was.
C28_DeleteAbsent ==
    [][(op'.name = "delete_breakpoint" /\ op'.addr \notin DOMAIN breakpoints) =>
          /\ op'.ok
          /\ mem' = mem
          /\ breakpoints' = breakpoints
          /\ next_bp_num' = next_bp_num]_vars

\* delete_breakpoint found no entry at a mapped address while another
\* breakpoint is armed.
C28_Witness ==
    /\ op.name = "delete_breakpoint" /\ ~op.created
    /\ op.addr \in Addr /\ prog[op.addr] # 0
    /\ \E a \in DOMAIN breakpoints : a # op.addr /\ mem[a] = INT3 /\ prog[a] # INT3

\* C29: a wait that reaps the SIGTRAP of a completed single step leaves rip
\* and the breakpoint flags as they are, also with a breakpoint at rip - 1.
C29_StepStopUntouched ==
    [][(pending = "SIGTRAP" /\ cause.kind = "step" /\ op'.name = "wait"
        /\ pending' = "none") =>
          (rip' = rip /\ breakpoints' = breakpoints /\ mem' = mem)]_vars

\* C30: while the child is stopped its memory differs from the program's own
\* bytes only at addresses that are keys of Target.breakpoints with
\* set_on_continue false, and there it holds 0xCC.
C30_OnlyBreakpointsDiffer ==
    run = "stopped" =>
        \A a \in Addr :
            mem[a] # prog[a] =>
                /\ a \in DOMAIN breakpoints
                /\ ~breakpoints[a].set_on_continue
                /\ mem[a] = INT3


\* C31: when a re-arming write fails inside cont, cont returns the error
\* without resuming the child, and every entry whose address is still mapped
\* has 0xCC at its address iff its set_on_continue is false.
C31_FailedContConsistent ==
    (op.name = "cont" /\ ~op.ok /\ ~op.stepped) =>
        /\ run = "stopped"
        /\ \A a \in (DOMAIN breakpoints) \cap Addr :
               prog[a] # INT3 => ((mem[a] = INT3) <=> ~Flag(a))


\* The statements of the tracer that follow the fork in the parent.
TracerCode == {"DebugInfo::create", "get_base_address", "wait"}

\* C32: the forked child never executes tracer code: after a failed execve
\* it is never at a statement of the creation path of Target or Debugger.
C32_ChildNeverRunsTracer ==
    /\ forked.pc \notin TracerCode
    /\ forked.pc = "panicked" => forked.at \notin TracerCode

\* C39: the personality step never prevents the exec: the child does not
\* stop at the assertion on the inherited personality nor at the setting of
\* ADDR_NO_RANDOMIZE.
C39_PersonalityNeverStopsChild ==
    forked.pc = "panicked" => forked.at \notin {"assert", "personality::set"}


\* The DW_AT_location attribute of the DIE, if it has one.
LocationOf(attrs) == {i \in DOMAIN attrs : attrs[i].name = "DW_AT_location"}

\* C35: the fbreg_offset of the Variable or FormalParameter returned is the
\* operand of the first operation of the DIE's DW_AT_location expression when
\* that operation is DW_OP_fbreg, and 0 when there is no location, when it is
\* not an expression, and when its first operation is anything else (or
\* cannot be parsed).
C35_FbregOffset ==
    fn_out # <<>> =>
        IF \E i \in LocationOf(die) :
              /\ die[i].form = "Exprloc"
              /\ die[i].v # <<>>
              /\ die[i].v[1].op = "DW_OP_fbreg"
        THEN \A i \in LocationOf(die) : fn_out[2].fbreg_offset = die[i].v[1].v
        ELSE fn_out[2].fbreg_offset = 0

\* A parameter whose location is DW_OP_fbreg -20 followed by another
\* operation has been processed.
C35_Witness ==
    /\ fn_out # <<>>
    /\ fn_out[1] = "process_formal_parameter"
    /\ fn_out[2].fbreg_offset = 0 - 20
    /\ \E i \in LocationOf(die) :
          /\ die[i].form = "Exprloc"
          /\ Len(die[i].v) = 2
          /\ die[i].v[1] = [op |-> "DW_OP_fbreg", v |-> 0 - 20]
          /\ die[i].v[2].op = "DW_OP_addr"


\* The DIEs of the file in the order collect_info meets them: <<unit, offset>>.
RECURSIVE DieSeq(_, _)
DieSeq(d, k) ==
    IF k > Len(d) THEN <<>>
    ELSE [i \in 1 .. Len(d[k]) |-> <<k, i>>] \o DieSeq(d, k + 1)

IsSubprogram(p) == dwarf[p[1]][p[2]].tag = "DW_TAG_subprogram"

\* The subprogram DIE the j-th Function was made from.
SubprogramDies == SelectSeq(DieSeq(dwarf, 1), IsSubprogram)

\* The DIE at offset i is a descendant of the DIE at offset s of unit k.
IsDescendant(k, i, s) ==
    s < i /\ \A m \in (s + 1) .. i : dwarf[k][m].depth > dwarf[k][s].depth

\* The entries of one list come from descendants of the DIE f, in DIE order.
FromDescendants(list, f) ==
    /\ \A x \in DOMAIN list :
          /\ list[x].name \div 10 = f[1]
          /\ IsDescendant(f[1], list[x].name % 10, f[2])
    /\ \A x, y \in DOMAIN list : x < y => list[x].name < list[y].name

\* C33: every entry of a Function's formal_parameters and local_variables
\* comes from a DIE that is a descendant of the function's DW_TAG_subprogram
\* DIE, in DIE order; a parameter or variable DIE outside every subprogram
\* is in no list.
C33_FromOwnSubprogram ==
    collected =>
        \A j \in DOMAIN functions :
            /\ FromDescendants(functions[j].formal_parameters, SubprogramDies[j])
            /\ FromDescendants(functions[j].local_variables, SubprogramDies[j])

\* The Type collect_info makes of a base, pointer or const type DIE.
TypeOfDie(entry, offset) ==
    CASE entry.tag = "DW_TAG_base_type" -> process_base_type(entry, offset)
      [] entry.tag = "DW_TAG_pointer_type" -> process_pointer_type(entry, offset)
      [] entry.tag = "DW_TAG_const_type" -> process_const_type(entry, offset)

\* C34: for every base, pointer or const type DIE of every unit, get_type of
\* the reference the DIEs of that unit use for it (its offset in the unit)
\* returns the Type made of that DIE.
C34_TypeKeysDistinct ==
    collected =>
        \A k \in DOMAIN dwarf : \A i \in DOMAIN dwarf[k] :
            dwarf[k][i].tag \in {"DW_TAG_base_type", "DW_TAG_pointer_type",
                                 "DW_TAG_const_type"} =>
                get_type(types, i) = [some |-> TRUE, typ |-> TypeOfDie(dwarf[k][i], i)]

\* C36: in a file of one unit, get_type_byte_size of a Const type whose `to`
\* is a collected type equals get_type_byte_size of that type.
C36_ConstByteSize ==
    (collected /\ Len(dwarf) = 1) =>
        \A o \in DOMAIN types :
            (types[o].kind = "Const" /\ types[o].to \in DOMAIN types) =>
                types_byte_size(types, o) = types_byte_size(types, types[o].to)


\* C37: print_backtrace terminates.  Past the first frame the loop's state
\* (rbp, rip) is read from memory at the previous rbp, and memory does not
\* change: a walk that meets a frame pointer twice repeats for ever.  So the
\* walk ends only if no two frames it prints have the same rbp.
C37_WalkEnds ==
    bt.valid =>
        \A i, j \in DOMAIN bt.frames : i < j => bt.frames[i].rbp # bt.frames[j].rbp


\* The values of enum ReplCommand.
CommandValues ==
    {"Start", "Continue", "Exit", "Unknown", "SetBp", "SetBpName", "DeleteBp",
     "ListBps", "GetRegs", "SingleStep", "Backtrace", "Frame", "GetVar"}

\* C38: every line read yields a value of ReplCommand; the parser does not
\* end the debugger on any line.
C38_LineYieldsCommand ==
    command.by # "none" => command.c.cmd \in CommandValues

====
